---- MODULE Spec2Model ----
(***************************************************************************)
(* Coordination core of the research/plan pipeline backend:                *)
(*   - dag_utils.py      : remove_cycles, topological_sort_layers          *)
(*   - ws/manager.py     : WSManager (per-project event bus with replay)   *)
(*   - research_agent.py : ResearchAgent.execute (sub-task runner)         *)
(*   - research_service  : run_research (orchestrator)                     *)
(* Three specifications share this module: SpecDag, SpecBus and SpecRun.   *)
(* Each one drives its own group of variables and leaves the others at     *)
(* their initial value.                                                    *)
(***************************************************************************)
EXTENDS Integers, Sequences, FiniteSets, TLC

VARIABLES
    \* ---- dag_utils ----
    artifact_ids,       \* the node ids, in the order the code iterates them
    connections_data,   \* candidate edges, a sequence of [from_id, to_id]
    dag_pc,             \* "input" | "accepted" | "reapplied" | "layered"
    dag_connections,    \* remove_cycles(connections_data, artifact_ids)
    dag_again,          \* remove_cycles(dag_connections, artifact_ids)
    layers,             \* topological_sort_layers(artifact_ids, connections_data)
    \* ---- ws/manager.py, ws/handlers.py ----
    connections,        \* WSManager._connections: project id -> list of websockets
    event_buffer,       \* WSManager._event_buffer: project id -> list of (ts, payload)
    clock,              \* time.time()
    ws_pc,              \* where each websocket's handle_project_ws task stands
    ws_topic,           \* the project id a websocket's handler was started for
    alive,              \* FALSE once the client is gone: send/receive then raise
    replay,             \* connect()'s loop: the list it iterates, its index, its now
    received,           \* what each websocket was sent, in order
    bc,                 \* each publisher task's send_event/broadcast call
    published,          \* history: per project id, every event given to send_event, in order
    sub_log,            \* history: per websocket, what had been published when its replay began
    \* ---- research_service.py, research_agent.py, routers/research.py ----
    run_pc,             \* where run_research stands
    angles,             \* len(angles): the number of ResearchAgent tasks
    agent_pc,           \* where each ResearchAgent.execute stands
    findings,           \* what research_angle_with_search returned to each agent
    artifacts,          \* each agent's local list artifacts
    agent_result,       \* what each execute() handed to gather
    agent_events,       \* the events each agent gave to send_event, in order
    run_events,         \* the events run_research and its wrapper gave to send_event
    all_artifacts,      \* run_research.all_artifacts
    synthesis,          \* the synthesize_research call: its argument and its result
    group_objects,      \* len(group_objects), the groups compute_layout built
    run_conns,          \* run_research.connections, the ArtifactConnection list
    store,              \* what the save_* calls wrote
    image_task,         \* the _generate_images task run_research creates
    \* plan_service.py, routers/plan.py
    plan_pc,            \* where run_plan (inside _safe_run_plan) stands
    plan_artifacts,     \* run_plan.plan_artifacts, by id
    plan_connections,   \* run_plan.connections
    plan_events,        \* the events run_plan and its wrapper gave to send_event
    plan_store,         \* what run_plan's save_* calls wrote
    raw_connections,    \* plan_data["connections"], between temp_ids
    \* ---- ws/manager.py, statement by statement ----
    lock,               \* WSManager._lock: the task that holds it, 0 when free
    lk_task,            \* each task's position and locals in its WSManager call
    lk_connections,     \* WSManager._connections[project_id]
    lk_buffer,          \* WSManager._event_buffer[project_id]
    lk_access,          \* history: each access to the two structures, with or without the lock
    \* ---- image_service.py ----
    img_run,            \* where generate_images_parallel and its caller stand
    img_unit,           \* each _generate_one task: position, attempt, what happened, result
    img_events,         \* the events the enrichment gave to send_event
    img_map,            \* image_map, the ids generate_images_parallel returns
    \* ---- routers/feedback.py ----
    batch_pc,           \* where _batch_regenerate_task stands
    batch_total,        \* total = len(artifact_ids)
    batch_i,            \* the artifacts the loop has gone through
    batch_succeeded,    \* succeeded
    batch_failed,       \* failed
    batch_events        \* the events the task gave to send_event

dagVars == <<artifact_ids, connections_data, dag_pc, dag_connections, dag_again, layers>>

busVars == <<connections, event_buffer, clock, ws_pc, ws_topic, alive, replay,
             received, bc, published, sub_log>>

runVars == <<run_pc, angles, agent_pc, findings, artifacts, agent_result,
             agent_events, run_events, all_artifacts, synthesis, group_objects,
             run_conns, store, image_task>>

planVars == <<plan_pc, plan_artifacts, plan_connections, plan_events, plan_store,
              raw_connections>>

lockVars == <<lock, lk_task, lk_connections, lk_buffer, lk_access>>

imgVars == <<img_run, img_unit, img_events, img_map>>

batchVars == <<batch_pc, batch_total, batch_i, batch_succeeded, batch_failed,
               batch_events>>

vars == <<dagVars, busVars, runVars, planVars, lockVars, imgVars, batchVars>>

-----------------------------------------------------------------------------
(* Generic helpers                                                         *)

Range(s) == {s[i] : i \in 1..Len(s)}

SeqsUpTo(S, n) == UNION {[1..k -> S] : k \in 0..n}

Perms(S) == {s \in [1..Cardinality(S) -> S] : Range(s) = S}

RECURSIVE Flatten(_)
Flatten(ss) == IF ss = <<>> THEN <<>> ELSE Head(ss) \o Flatten(Tail(ss))

\* the subsequence of s at the indices that are not in drop
RECURSIVE DropIndices(_, _, _)
DropIndices(s, drop, i) ==
    IF i > Len(s) THEN <<>>
    ELSE (IF i \in drop THEN <<>> ELSE <<s[i]>>) \o DropIndices(s, drop, i + 1)

-----------------------------------------------------------------------------
(* dag_utils.py                                                            *)

MaxEdges == 3

NodeIds == {"A", "B", "C"}

\* an id no node has (an id the synthesis step made up)
UnknownId == "X"

EdgeIds == NodeIds \cup {UnknownId}

Edge(f, t) == [from_id |-> f, to_id |-> t]

AllEdges == {Edge(f, t) : f \in EdgeIds, t \in EdgeIds}

WHITE == 0
GRAY == 1
BLACK == 2

\* adj[node]: the <<neighbor, edge_idx>> pairs of the edges leaving node whose
\* endpoints are both known, in edge order
RECURSIVE adj(_, _, _, _)
adj(edges, ids, node, i) ==
    IF i > Len(edges) THEN <<>>
    ELSE (IF edges[i].from_id = node /\ edges[i].from_id \in ids /\ edges[i].to_id \in ids
          THEN << <<edges[i].to_id, i>> >>
          ELSE <<>>) \o adj(edges, ids, node, i + 1)

IsBackEdgeWrongColor(color, neighbor) == color[neighbor] = BLACK

IsBackEdgeNotWhite(color, neighbor) == color[neighbor] # WHITE

IsBackEdge(color, neighbor) == color[neighbor] = GRAY

RECURSIVE dfs(_, _, _, _), dfsLoop(_, _, _, _, _)
dfs(node, st, edges, ids) ==
    LET entered == [st EXCEPT !.color[node] = GRAY]
        visited == dfsLoop(node, 1, entered, edges, ids)
    IN  [visited EXCEPT !.color[node] = BLACK]

dfsLoop(node, k, st, edges, ids) ==
    LET out == adj(edges, ids, node, 1) IN
    IF k > Len(out) THEN st
    ELSE LET neighbor == out[k][1]
             edge_idx == out[k][2]
         IN  IF IsBackEdge(st.color, neighbor)
             THEN dfsLoop(node, k + 1,
                          [st EXCEPT !.back_edges = @ \cup {edge_idx}], edges, ids)
             ELSE IF st.color[neighbor] = WHITE
             THEN dfsLoop(node, k + 1, dfs(neighbor, st, edges, ids), edges, ids)
             ELSE dfsLoop(node, k + 1, st, edges, ids)

\* for aid in artifact_ids: if color[aid] == WHITE: dfs(aid)
RECURSIVE dfsAll(_, _, _, _)
dfsAll(order, i, st, edges) ==
    IF i > Len(order) THEN st
    ELSE dfsAll(order, i + 1,
                IF st.color[order[i]] = WHITE
                THEN dfs(order[i], st, edges, Range(order))
                ELSE st,
                edges)

back_edges(edges, order) ==
    dfsAll(order, 1,
           [color |-> [aid \in Range(order) |-> WHITE], back_edges |-> {}],
           edges).back_edges

remove_cycles_filtering(edges, order) ==
    LET known(c) == c.from_id \in Range(order) /\ c.to_id \in Range(order)
    IN  SelectSeq(DropIndices(edges, back_edges(edges, order), 1), known)

\* order is the iteration order of the set artifact_ids
remove_cycles(edges, order) == DropIndices(edges, back_edges(edges, order), 1)

\* in_degree after lines 48-54: one count per edge between listed ids
in_degree0(ids, conns) ==
    [aid \in Range(ids) |->
        Cardinality({i \in 1..Len(conns) :
                        /\ conns[i].from_id \in Range(ids)
                        /\ conns[i].to_id \in Range(ids)
                        /\ conns[i].to_id = aid})]

RECURSIVE visitNeighbors_early(_, _, _)
visitNeighbors_early(out, j, st) ==
    IF j > Len(out) THEN st
    ELSE LET neighbor == out[j][1]
             d == st.in_degree[neighbor] - 1
         IN  visitNeighbors_early(out, j + 1,
                [in_degree  |-> [st.in_degree EXCEPT ![neighbor] = d],
                 next_queue |-> IF d \in {0, 1} THEN Append(st.next_queue, neighbor)
                                ELSE st.next_queue])

\* for neighbor in adj[node]: in_degree[neighbor] -= 1; if 0: next_queue.append
RECURSIVE visitNeighbors(_, _, _)
visitNeighbors(out, j, st) ==
    IF j > Len(out) THEN st
    ELSE LET neighbor == out[j][1]
             d == st.in_degree[neighbor] - 1
         IN  visitNeighbors(out, j + 1,
                [in_degree  |-> [st.in_degree EXCEPT ![neighbor] = d],
                 next_queue |-> IF d = 0 THEN Append(st.next_queue, neighbor)
                                ELSE st.next_queue])

\* for node in layer: ...
RECURSIVE visitLayer(_, _, _, _, _)
visitLayer(layer, i, st, conns, id_set) ==
    IF i > Len(layer) THEN st
    ELSE visitLayer(layer, i + 1,
                    visitNeighbors(adj(conns, id_set, layer[i], 1), 1, st),
                    conns, id_set)

\* while queue: ...
RECURSIVE kahn(_, _, _, _, _)
kahn(queue, in_degree, done, conns, id_set) ==
    IF queue = <<>> THEN [layers |-> done, in_degree |-> in_degree]
    ELSE LET st == visitLayer(queue, 1,
                              [in_degree |-> in_degree, next_queue |-> <<>>],
                              conns, id_set)
         IN  kahn(st.next_queue, st.in_degree, Append(done, queue), conns, id_set)

with_remaining_dropped(done, remaining) == done

\* if remaining: layers.append(remaining)
with_remaining(done, remaining) ==
    IF remaining # <<>> THEN Append(done, remaining) ELSE done

topological_sort_layers(ids, conns) ==
    LET deg0 == in_degree0(ids, conns)
        IsRoot(aid) == deg0[aid] = 0
        r == kahn(SelectSeq(ids, IsRoot), deg0, <<>>, conns, Range(ids))
        IsLeft(aid) == r.in_degree[aid] > 0
    IN  with_remaining(r.layers, SelectSeq(ids, IsLeft))


-----------------------------------------------------------------------------
(* ws/manager.py and ws/handlers.py                                        *)

BufferTtl == 60

MaxEvents == 3

\* one tick takes every buffered event to the age at which it stops being fresh
TickStep == BufferTtl

\* time is followed until the events of time 0 have reached the TTL
Horizon == BufferTtl

\* project ids, numbered in the order they are first used
Topics == {1, 2}

\* websockets, numbered in the order their handlers are started
Sinks == {1, 2}

\* tasks calling send_event; a new call is given the lowest-numbered free task
Publishers == {1, 2}

NoTopic == 0

\* f with key k set to v, k added to the domain if absent (dict item assignment)
Put(f, k, v) == [x \in DOMAIN f \cup {k} |-> IF x = k THEN v ELSE f[x]]

\* f without key k (del f[k])
Del(f, k) == [x \in DOMAIN f \ {k} |-> f[x]]

\* d.get(k, [])
GetOrEmpty(f, k) == IF k \in DOMAIN f THEN f[k] ELSE <<>>

\* list.remove(x): the first occurrence goes
RECURSIVE RemoveFirst(_, _)
RemoveFirst(s, x) ==
    IF s = <<>> THEN <<>>
    ELSE IF Head(s) = x THEN Tail(s)
    ELSE <<Head(s)>> \o RemoveFirst(Tail(s), x)

RECURSIVE RemoveAll(_, _)
RemoveAll(s, xs) ==
    IF xs = <<>> THEN s
    ELSE RemoveAll(IF Head(xs) \in Range(s) THEN RemoveFirst(s, Head(xs)) ELSE s,
                   Tail(xs))

replay_fresh_inclusive(now, ts) == now - ts <= BufferTtl

\* connect, line 25: if now - ts < self._buffer_ttl
replay_fresh(now, ts) == now - ts < BufferTtl

prune_keeps_newest(buf, now) == <<buf[Len(buf)]>>

prune_keeps_all(buf, now) == buf

prune_keeps_expired(buf, now) ==
    LET keep(e) == now - e.ts >= BufferTtl IN SelectSeq(buf, keep)

\* send_event, line 71: [(t, d) for t, d in buf if now - t < self._buffer_ttl]
prune(buf, now) ==
    LET keep(e) == now - e.ts < BufferTtl IN SelectSeq(buf, keep)

\* the for loop of connect between two sends: entries that are not fresh are
\* passed over without a suspension
RECURSIVE next_fresh(_, _, _)
next_fresh(list, i, now) ==
    IF i > Len(list) THEN i
    ELSE IF replay_fresh(now, list[i].ts) THEN i
    ELSE next_fresh(list, i + 1, now)

NoReplay == [list |-> <<>>, idx |-> 0, now |-> 0, attached |-> FALSE]

IdleCall == [pc |-> "idle", project_id |-> NoTopic, message |-> 0,
             connections |-> <<>>, i |-> 0, disconnected |-> <<>>]

NoLog == [start |-> 0, due |-> <<>>]

\* the payloads of a sequence of (ts, payload) entries, in order
Payloads(entries) == [i \in 1..Len(entries) |-> entries[i].payload]

\* the events of a topic's history published less than the TTL before now
FreshHistory(hist, now) ==
    LET isDue(e) == now - e.ts < BufferTtl IN Payloads(SelectSeq(hist, isDue))

\* how many events were given to send_event so far, over all topics
RECURSIVE TotalPublished(_, _)
TotalPublished(hist, ps) ==
    IF ps = {} THEN 0
    ELSE LET p == CHOOSE x \in ps : TRUE
         IN  Len(hist[p]) + TotalPublished(hist, ps \ {p})

\* a project id comes into use with its first handler or its first event
InUse(p) == published[p] # <<>> \/ \E w \in Sinks : ws_topic[w] = p

FirstUse(p) == \A q \in Topics : q < p => InUse(q)

InitBus ==
    /\ connections = <<>>
    /\ event_buffer = <<>>
    /\ clock = 0
    /\ ws_pc = [w \in Sinks |-> "idle"]
    /\ ws_topic = [w \in Sinks |-> NoTopic]
    /\ alive = [w \in Sinks |-> TRUE]
    /\ replay = [w \in Sinks |-> NoReplay]
    /\ received = [w \in Sinks |-> <<>>]
    /\ bc = [t \in Publishers |-> IdleCall]
    /\ published = [p \in Topics |-> <<>>]
    /\ sub_log = [w \in Sinks |-> NoLog]

\* async with self._lock: self._connections[project_id].append(websocket)
add_connection_shared(conns, p, w) == Put(conns, 1, Append(GetOrEmpty(conns, 1), w))

add_connection(conns, p, w) == Put(conns, p, Append(GetOrEmpty(conns, p), w))

\* handle_project_ws is started for a websocket: connect() awaits accept()
HandleProjectWs(w, p) ==
    /\ ws_pc[w] = "idle"
    /\ \A v \in Sinks : v < w => ws_pc[v] # "idle"
    /\ FirstUse(p)
    /\ ws_pc' = [ws_pc EXCEPT ![w] = "accept"]
    /\ ws_topic' = [ws_topic EXCEPT ![w] = p]
    /\ UNCHANGED <<connections, event_buffer, clock, alive, replay, received, bc,
                   published, sub_log>>

\* accept() raises on a client that is gone: connect() is outside the handler's
\* try, so the handler ends without calling disconnect()
AcceptFails(w) ==
    /\ ws_pc[w] = "accept"
    /\ ~alive[w]
    /\ ws_pc' = [ws_pc EXCEPT ![w] = "closed"]
    /\ UNCHANGED <<connections, event_buffer, clock, ws_topic, alive, replay,
                   received, bc, published, sub_log>>

ConnectReplayBeginJoined(w) ==
    /\ ws_pc[w] = "accept"
    /\ alive[w]
    /\ LET p == ws_topic[w]
           list == GetOrEmpty(event_buffer, p)
           first == next_fresh(list, 1, clock)
       IN  /\ sub_log' = [sub_log EXCEPT ![w] =
                            [start |-> Len(published[p]),
                             due |-> FreshHistory(published[p], clock)]]
           /\ connections' = add_connection(connections, p, w)
           /\ IF first > Len(list)
              THEN /\ ws_pc' = [ws_pc EXCEPT ![w] = "receive"]
                   /\ UNCHANGED replay
              ELSE /\ replay' = [replay EXCEPT ![w] =
                                   [list |-> list, idx |-> first, now |-> clock,
                                    attached |-> p \in DOMAIN event_buffer]]
                   /\ ws_pc' = [ws_pc EXCEPT ![w] = "replay"]
    /\ UNCHANGED <<event_buffer, clock, ws_topic, alive, received, bc, published>>

\* connect(), after accept(): now is read, the loop starts on the buffered list
\* and runs to its first send_text, or to the end when nothing is fresh
ConnectReplayBegin(w) ==
    /\ ws_pc[w] = "accept"
    /\ alive[w]
    /\ LET p == ws_topic[w]
           list == GetOrEmpty(event_buffer, p)
           first == next_fresh(list, 1, clock)
       IN  /\ sub_log' = [sub_log EXCEPT ![w] =
                            [start |-> Len(published[p]),
                             due |-> FreshHistory(published[p], clock)]]
           /\ IF first > Len(list)
              THEN /\ connections' = add_connection(connections, p, w)
                   /\ ws_pc' = [ws_pc EXCEPT ![w] = "receive"]
                   /\ UNCHANGED replay
              ELSE /\ replay' = [replay EXCEPT ![w] =
                                   [list |-> list, idx |-> first, now |-> clock,
                                    attached |-> p \in DOMAIN event_buffer]]
                   /\ ws_pc' = [ws_pc EXCEPT ![w] = "replay"]
                   /\ UNCHANGED connections
    /\ UNCHANGED <<event_buffer, clock, ws_topic, alive, received, bc, published>>

\* connect(): one send_text of the loop returns and the loop goes on to the next
\* fresh entry, or ends and the websocket joins the live list
ConnectReplaySend(w) ==
    /\ ws_pc[w] = "replay"
    /\ alive[w]
    /\ LET r == replay[w]
           following == next_fresh(r.list, r.idx + 1, r.now)
       IN  /\ received' = [received EXCEPT ![w] = Append(@, r.list[r.idx].payload)]
           /\ IF following > Len(r.list)
              THEN /\ connections' = add_connection(connections, ws_topic[w], w)
                   /\ ws_pc' = [ws_pc EXCEPT ![w] = "receive"]
                   /\ replay' = [replay EXCEPT ![w] = NoReplay]
              ELSE /\ replay' = [replay EXCEPT ![w].idx = following]
                   /\ UNCHANGED <<connections, ws_pc>>
    /\ UNCHANGED <<event_buffer, clock, ws_topic, alive, bc, published, sub_log>>

ConnectReplayFailsButJoins(w) ==
    /\ ws_pc[w] = "replay"
    /\ ~alive[w]
    /\ connections' = add_connection(connections, ws_topic[w], w)
    /\ ws_pc' = [ws_pc EXCEPT ![w] = "receive"]
    /\ replay' = [replay EXCEPT ![w] = NoReplay]
    /\ UNCHANGED <<event_buffer, clock, ws_topic, alive, received, bc, published,
                   sub_log>>

\* connect(): send_text raises during replay: return, the websocket is not added
ConnectReplayFails(w) ==
    /\ ws_pc[w] = "replay"
    /\ ~alive[w]
    /\ ws_pc' = [ws_pc EXCEPT ![w] = "receive"]
    /\ replay' = [replay EXCEPT ![w] = NoReplay]
    /\ UNCHANGED <<connections, event_buffer, clock, ws_topic, alive, received, bc,
                   published, sub_log>>

disconnect_skipped(conns, p, w) == conns

disconnect_keeps_empty(conns, p, w) ==
    LET cur == GetOrEmpty(conns, p) IN
    IF w \in Range(cur) THEN Put(conns, p, RemoveFirst(cur, w))
    ELSE Put(conns, p, cur)

\* disconnect(): the body under the lock
disconnect(conns, p, w) ==
    LET cur == GetOrEmpty(conns, p) IN
    IF w \in Range(cur)
    THEN IF RemoveFirst(cur, w) = <<>> THEN Del(conns, p)
         ELSE Put(conns, p, RemoveFirst(cur, w))
    ELSE Put(conns, p, cur)

\* handle_project_ws: receive_text raises (WebSocketDisconnect / RuntimeError),
\* finally: disconnect()
HandlerDisconnect(w) ==
    /\ ws_pc[w] = "receive"
    /\ ~alive[w]
    /\ connections' = disconnect(connections, ws_topic[w], w)
    /\ ws_pc' = [ws_pc EXCEPT ![w] = "closed"]
    /\ sub_log' = [sub_log EXCEPT ![w] = NoLog]
    /\ UNCHANGED <<event_buffer, clock, ws_topic, alive, replay, received, bc,
                   published>>

\* the client goes away
SinkDies(w) ==
    /\ ws_pc[w] \in {"accept", "replay", "receive"}
    /\ alive[w]
    /\ alive' = [alive EXCEPT ![w] = FALSE]
    /\ UNCHANGED <<connections, event_buffer, clock, ws_pc, ws_topic, replay,
                   received, bc, published, sub_log>>

\* send_event() up to broadcast()'s first send_text: buf.append mutates the list
\* object in place (a replay loop iterating that object sees the entry), then the
\* dict entry is rebound to a new pruned list; broadcast copies the live list
SendEvent(t, p) ==
    /\ bc[t].pc = "idle"
    /\ \A u \in Publishers : u < t => bc[u].pc # "idle"
    /\ FirstUse(p)
    /\ TotalPublished(published, Topics) < MaxEvents
    /\ LET entry == [ts |-> clock, payload |-> <<p, Len(published[p]) + 1>>]
           buf == Append(GetOrEmpty(event_buffer, p), entry)
           live == GetOrEmpty(connections, p)
       IN  /\ event_buffer' = Put(event_buffer, p, prune(buf, clock))
           /\ replay' = [w \in Sinks |->
                           IF ws_pc[w] = "replay" /\ ws_topic[w] = p /\ replay[w].attached
                           THEN [replay[w] EXCEPT !.list = Append(@, entry),
                                                  !.attached = FALSE]
                           ELSE replay[w]]
           /\ published' = [published EXCEPT ![p] = Append(@, entry)]
           /\ bc' = [bc EXCEPT ![t] =
                        IF live = <<>> THEN IdleCall
                        ELSE [pc |-> "sending", project_id |-> p, message |-> entry.payload,
                              connections |-> live, i |-> 1, disconnected |-> <<>>]]
    /\ UNCHANGED <<connections, clock, ws_pc, ws_topic, alive, received, sub_log>>

BroadcastSendAborting(t) ==
    /\ bc[t].pc = "sending"
    /\ LET c == bc[t]
           w == c.connections[c.i]
           failed == IF alive[w] THEN c.disconnected ELSE Append(c.disconnected, w)
           last == c.i = Len(c.connections) \/ ~alive[w]
       IN  /\ received' = IF alive[w] THEN [received EXCEPT ![w] = Append(@, c.message)]
                          ELSE received
           /\ bc' = [bc EXCEPT ![t] =
                        IF last /\ failed = <<>> THEN IdleCall
                        ELSE [c EXCEPT !.i = c.i + 1, !.disconnected = failed,
                                       !.pc = IF last THEN "cleanup" ELSE "sending"]]
    /\ UNCHANGED <<connections, event_buffer, clock, ws_pc, ws_topic, alive, replay,
                   published, sub_log>>

\* broadcast(): one send_text of the loop over the copied list
BroadcastSend(t) ==
    /\ bc[t].pc = "sending"
    /\ LET c == bc[t]
           w == c.connections[c.i]
           failed == IF alive[w] THEN c.disconnected ELSE Append(c.disconnected, w)
           last == c.i = Len(c.connections)
       IN  /\ received' = IF alive[w] THEN [received EXCEPT ![w] = Append(@, c.message)]
                          ELSE received
           /\ bc' = [bc EXCEPT ![t] =
                        IF last /\ failed = <<>> THEN IdleCall
                        ELSE [c EXCEPT !.i = c.i + 1, !.disconnected = failed,
                                       !.pc = IF last THEN "cleanup" ELSE "sending"]]
    /\ UNCHANGED <<connections, event_buffer, clock, ws_pc, ws_topic, alive, replay,
                   published, sub_log>>

\* broadcast(): if disconnected: under the lock, remove each one still listed
BroadcastCleanup(t) ==
    /\ bc[t].pc = "cleanup"
    /\ connections' = Put(connections, bc[t].project_id,
                          RemoveAll(GetOrEmpty(connections, bc[t].project_id),
                                    bc[t].disconnected))
    /\ bc' = [bc EXCEPT ![t] = IdleCall]
    /\ UNCHANGED <<event_buffer, clock, ws_pc, ws_topic, alive, replay, received,
                   published, sub_log>>

\* time passes; only ages matter, so time is not followed before the first event
Tick ==
    /\ clock < Horizon
    /\ DOMAIN event_buffer # {}
    /\ clock' = clock + TickStep
    /\ UNCHANGED <<connections, event_buffer, ws_pc, ws_topic, alive, replay,
                   received, bc, published, sub_log>>

NextBus ==
    \/ \E w \in Sinks, p \in Topics : HandleProjectWs(w, p) /\ UNCHANGED <<dagVars, runVars, planVars, lockVars, imgVars, batchVars>>
    \/ \E w \in Sinks : AcceptFails(w) /\ UNCHANGED <<dagVars, runVars, planVars, lockVars, imgVars, batchVars>>
    \/ \E w \in Sinks : ConnectReplayBegin(w) /\ UNCHANGED <<dagVars, runVars, planVars, lockVars, imgVars, batchVars>>
    \/ \E w \in Sinks : ConnectReplaySend(w) /\ UNCHANGED <<dagVars, runVars, planVars, lockVars, imgVars, batchVars>>
    \/ \E w \in Sinks : ConnectReplayFails(w) /\ UNCHANGED <<dagVars, runVars, planVars, lockVars, imgVars, batchVars>>
    \/ \E w \in Sinks : HandlerDisconnect(w) /\ UNCHANGED <<dagVars, runVars, planVars, lockVars, imgVars, batchVars>>
    \/ \E w \in Sinks : SinkDies(w) /\ UNCHANGED <<dagVars, runVars, planVars, lockVars, imgVars, batchVars>>
    \/ \E t \in Publishers, p \in Topics : SendEvent(t, p) /\ UNCHANGED <<dagVars, runVars, planVars, lockVars, imgVars, batchVars>>
    \/ \E t \in Publishers : BroadcastSend(t) /\ UNCHANGED <<dagVars, runVars, planVars, lockVars, imgVars, batchVars>>
    \/ \E t \in Publishers : BroadcastCleanup(t) /\ UNCHANGED <<dagVars, runVars, planVars, lockVars, imgVars, batchVars>>
    \/ Tick /\ UNCHANGED <<dagVars, runVars, planVars, lockVars, imgVars, batchVars>>


-----------------------------------------------------------------------------
(* research_agent.py: ResearchAgent.execute                                *)

MaxUnits == 2

MaxFindings == 2

Agents == 1..MaxUnits

\* an event whose data names no artifact
NoArtifact == <<0, 0>>

\* {"type": ..., "data": ...}: n is the number the data carries
Event(type, n) == [type |-> type, n |-> n, artifact |-> NoArtifact]

\* {"type": ..., "data": {"artifact": artifact.model_dump()}}
ArtifactEvent(type, artifact) == [type |-> type, n |-> 0, artifact |-> artifact]

NoFindings == [count |-> 0, bad |-> 0]

NotReturned == [kind |-> "none", value |-> <<>>]

Returned(v) == [kind |-> "returned", value |-> v]

Raised == [kind |-> "raised", value |-> <<>>]

caught_result_reraised(local) == Raised

\* except Exception as e: send_event("error", ...); return []
caught_result(local) == Returned(<<>>)


\* the artifacts are told apart by the agent and the finding they come from
Artifact(a, j) == <<a, j>>

\* execute() from a resumption inside the try block to its next suspension:
\* the next finding becomes an Artifact and is streamed; a finding Artifact()
\* rejects raises into the except block; after the last finding agent_complete
\* is sent with len(artifacts)
execute_step(a, f, local) ==
    LET j == Len(local) IN
    IF j < f.count
    THEN IF j + 1 = f.bad
         THEN [pc |-> "erroring", artifacts |-> local,
               event |-> Event("error", a)]
         ELSE [pc |-> "creating", artifacts |-> Append(local, Artifact(a, j + 1)),
               event |-> ArtifactEvent("artifact_created", Artifact(a, j + 1))]
    ELSE [pc |-> "completing", artifacts |-> local,
          event |-> Event("agent_complete", j)]

\* await send_event("agent_started", ...)
AgentStarted(a) ==
    /\ agent_pc[a] = "spawned"
    /\ agent_pc' = [agent_pc EXCEPT ![a] = "started"]
    /\ agent_events' = [agent_events EXCEPT ![a] = Append(@, Event("agent_started", a))]
    /\ UNCHANGED <<run_pc, angles, findings, artifacts, agent_result, run_events,
                   all_artifacts, synthesis, group_objects, run_conns, store,
                   image_task>>

\* try: await send_event("agent_thinking", ...), then the search call is awaited
AgentThinking(a) ==
    /\ agent_pc[a] = "started"
    /\ agent_pc' = [agent_pc EXCEPT ![a] = "searching"]
    /\ agent_events' = [agent_events EXCEPT ![a] = Append(@, Event("agent_thinking", a))]
    /\ UNCHANGED <<run_pc, angles, findings, artifacts, agent_result, run_events,
                   all_artifacts, synthesis, group_objects, run_conns, store,
                   image_task>>

\* research_angle_with_search returns count findings (none when the answer does
\* not parse); bad is the first finding Artifact() rejects, 0 if there is none
SearchReturns(a, count, bad) ==
    /\ agent_pc[a] = "searching"
    /\ LET f == [count |-> count, bad |-> bad]
           step == execute_step(a, f, <<>>)
       IN  /\ findings' = [findings EXCEPT ![a] = f]
           /\ artifacts' = [artifacts EXCEPT ![a] = step.artifacts]
           /\ agent_pc' = [agent_pc EXCEPT ![a] = step.pc]
           /\ agent_events' = [agent_events EXCEPT ![a] = Append(@, step.event)]
    /\ UNCHANGED <<run_pc, angles, agent_result, run_events, all_artifacts,
                   synthesis, group_objects, run_conns, store, image_task>>

\* research_angle_with_search raises: the except block sends the error event
SearchRaises(a) ==
    /\ agent_pc[a] = "searching"
    /\ agent_pc' = [agent_pc EXCEPT ![a] = "erroring"]
    /\ agent_events' = [agent_events EXCEPT ![a] = Append(@, Event("error", a))]
    /\ UNCHANGED <<run_pc, angles, findings, artifacts, agent_result, run_events,
                   all_artifacts, synthesis, group_objects, run_conns, store,
                   image_task>>

\* the send_event of an artifact_created returns and the loop goes on
CreateNext(a) ==
    /\ agent_pc[a] = "creating"
    /\ LET step == execute_step(a, findings[a], artifacts[a])
       IN  /\ artifacts' = [artifacts EXCEPT ![a] = step.artifacts]
           /\ agent_pc' = [agent_pc EXCEPT ![a] = step.pc]
           /\ agent_events' = [agent_events EXCEPT ![a] = Append(@, step.event)]
    /\ UNCHANGED <<run_pc, angles, findings, agent_result, run_events,
                   all_artifacts, synthesis, group_objects, run_conns, store,
                   image_task>>

\* the send_event of agent_complete returns: return artifacts
AgentReturns(a) ==
    /\ agent_pc[a] = "completing"
    /\ agent_pc' = [agent_pc EXCEPT ![a] = "returned"]
    /\ agent_result' = [agent_result EXCEPT ![a] = Returned(artifacts[a])]
    /\ UNCHANGED <<run_pc, angles, findings, artifacts, agent_events, run_events,
                   all_artifacts, synthesis, group_objects, run_conns, store,
                   image_task>>

AgentFallsThrough(a) ==
    /\ agent_pc[a] = "erroring"
    /\ agent_pc' = [agent_pc EXCEPT ![a] = "returned"]
    /\ agent_events' = [agent_events EXCEPT
                          ![a] = Append(@, Event("agent_complete", Len(artifacts[a])))]
    /\ agent_result' = [agent_result EXCEPT ![a] = Returned(artifacts[a])]
    /\ UNCHANGED <<run_pc, angles, findings, artifacts, run_events,
                   all_artifacts, synthesis, group_objects, run_conns, store,
                   image_task>>

\* the send_event of the error event returns: return []
AgentReturnsEmpty(a) ==
    /\ agent_pc[a] = "erroring"
    /\ agent_pc' = [agent_pc EXCEPT ![a] = "returned"]
    /\ agent_result' = [agent_result EXCEPT ![a] = caught_result(artifacts[a])]
    /\ UNCHANGED <<run_pc, angles, findings, artifacts, agent_events, run_events,
                   all_artifacts, synthesis, group_objects, run_conns, store,
                   image_task>>

-----------------------------------------------------------------------------
(* research_service.py: run_research; routers/research.py: _safe_run_research *)

NoSynthesis == [called |-> FALSE, input |-> <<>>]

EmptyStore == [artifacts |-> <<>>, connections |-> <<>>, groups |-> 0, calls |-> 0,
               saved |-> {}]

GroupCounts == {0, 1}

\* an id no artifact of the run has
UnknownArtifact == Artifact(0, 0)

SummaryArtifact == Artifact(0, 1)

Reverse(q) == [i \in 1..Len(q) |-> q[Len(q) + 1 - i]]

\* what synthesize_research may propose as connections: nothing, a cycle, a
\* self-loop, an edge naming an id that does not exist
ProposedConnections(arts) ==
    IF arts = <<>> THEN {<<>>}
    ELSE LET x == arts[1]
             y == arts[Len(arts)]
         IN  {<<>>,
              <<Edge(x, y), Edge(y, x)>>,
              <<Edge(x, x)>>,
              <<Edge(x, y), Edge(y, UnknownArtifact)>>}

\* artifact_ids is a set: the orders its iteration may take, as far as the
\* proposed connections can tell them apart
IterationOrders(arts) == {arts, Reverse(arts)}

known_connections_unfiltered(dag, ids) == dag

\* lines 140-152: an ArtifactConnection per accepted edge between known ids
known_connections(dag, ids) ==
    LET known(c) == c.from_id \in ids /\ c.to_id \in ids IN SelectSeq(dag, known)

InitRun ==
    /\ run_pc = "planning"
    /\ angles = 0
    /\ agent_pc = [a \in Agents |-> "unused"]
    /\ findings = [a \in Agents |-> NoFindings]
    /\ artifacts = [a \in Agents |-> <<>>]
    /\ agent_result = [a \in Agents |-> NotReturned]
    /\ agent_events = [a \in Agents |-> <<>>]
    /\ run_events = <<>>
    /\ all_artifacts = <<>>
    /\ synthesis = NoSynthesis
    /\ group_objects = 0
    /\ run_conns = <<>>
    /\ store = EmptyStore
    /\ image_task = "none"

\* plan_research: the parsed JSON array is returned as it is, with as many
\* angles as it has; only a text that does not parse gives the one generic angle
plan_research(parsed, n) == IF parsed THEN n ELSE 1

\* plan_research returns n angles; research_directions_planned is sent and one
\* ResearchAgent.execute() per angle is handed to gather
PlanReturns(n) ==
    /\ run_pc = "planning"
    /\ angles' = n
    /\ run_events' = Append(run_events, Event("research_directions_planned", n))
    /\ agent_pc' = [a \in Agents |-> IF a <= n THEN "spawned" ELSE "unused"]
    /\ run_pc' = "gather"
    /\ UNCHANGED <<findings, artifacts, agent_result, agent_events, all_artifacts,
                   synthesis, group_objects, run_conns, store, image_task>>

\* plan_research raises: _safe_run_research catches it and sends "error"
PlanRaises ==
    /\ run_pc = "planning"
    /\ run_events' = Append(run_events, Event("error", 0))
    /\ run_pc' = "failed"
    /\ UNCHANGED <<angles, agent_pc, findings, artifacts, agent_result, agent_events,
                   all_artifacts, synthesis, group_objects, run_conns, store,
                   image_task>>

gather_first_done(n) == n = 0 \/ \E a \in 1..n : agent_pc[a] = "returned"

\* await asyncio.gather(*tasks, return_exceptions=True) returns when every task
\* has returned or raised
gather_done(n) == \A a \in 1..n : agent_pc[a] = "returned"

collect_overwriting(results, a, n) ==
    IF n = 0 \/ results[n].kind = "raised" THEN <<>> ELSE results[n].value

\* for result in results: an exception is counted, a list is extended into
\* all_artifacts
RECURSIVE collect(_, _, _)
collect(results, a, n) ==
    IF a > n THEN <<>>
    ELSE (IF results[a].kind = "raised" THEN <<>> ELSE results[a].value)
         \o collect(results, a + 1, n)

\* gather returns; with no artifact at all research_complete is sent with
\* total_artifacts 0 and run_research returns, otherwise synthesize_research is
\* called with the collected artifacts
FanIn ==
    /\ run_pc = "gather"
    /\ gather_done(angles)
    /\ LET merged == collect(agent_result, 1, angles)
       IN  /\ all_artifacts' = merged
           /\ IF merged = <<>>
              THEN /\ run_events' = Append(run_events, Event("research_complete", 0))
                   /\ run_pc' = "done"
                   /\ UNCHANGED synthesis
              ELSE /\ synthesis' = [called |-> TRUE, input |-> merged]
                   /\ run_pc' = "synthesizing"
                   /\ UNCHANGED run_events
    /\ UNCHANGED <<angles, agent_pc, findings, artifacts, agent_result, agent_events,
                   group_objects, run_conns, store, image_task>>


\* synthesize_research returns: layout, cycle removal, the connection objects
\* and the summary artifact (inserted first) are computed, then save_artifacts
\* is awaited
SynthesisReturns(g, raw, order) ==
    /\ run_pc = "synthesizing"
    /\ group_objects' = g
    /\ run_conns' = known_connections(remove_cycles(raw, order), Range(all_artifacts))
    /\ all_artifacts' = <<SummaryArtifact>> \o all_artifacts
    /\ run_pc' = "save_artifacts"
    /\ UNCHANGED <<angles, agent_pc, findings, artifacts, agent_result, agent_events,
                   run_events, synthesis, store, image_task>>

SynthesisRaisesSilently ==
    /\ run_pc = "synthesizing"
    /\ run_pc' = "failed"
    /\ UNCHANGED <<angles, agent_pc, findings, artifacts, agent_result, agent_events,
                   run_events, all_artifacts, synthesis, group_objects, run_conns,
                   store, image_task>>

\* synthesize_research raises: _safe_run_research catches it and sends "error"
SynthesisRaises ==
    /\ run_pc = "synthesizing"
    /\ run_events' = Append(run_events, Event("error", 0))
    /\ run_pc' = "failed"
    /\ UNCHANGED <<angles, agent_pc, findings, artifacts, agent_result, agent_events,
                   all_artifacts, synthesis, group_objects, run_conns, store,
                   image_task>>

\* one of the three awaits of the try block at lines 170-173; when it raises the
\* except block sends "error" and the rest of the block is skipped
SaveStep(ok) ==
    /\ run_pc \in {"save_artifacts", "save_connections", "save_groups"}
    /\ IF ok
       THEN /\ store' = [store EXCEPT
                            !.calls = @ + 1,
                            !.saved = @ \cup {run_pc},
                            !.artifacts = IF run_pc = "save_artifacts"
                                          THEN all_artifacts ELSE @,
                            !.connections = IF run_pc = "save_connections"
                                            THEN run_conns ELSE @,
                            !.groups = IF run_pc = "save_groups"
                                       THEN group_objects ELSE @]
            /\ run_pc' = CASE run_pc = "save_artifacts" -> "save_connections"
                           [] run_pc = "save_connections" -> "save_groups"
                           [] OTHER -> "notify"
            /\ UNCHANGED run_events
       ELSE /\ store' = [store EXCEPT !.calls = @ + 1]
            /\ run_events' = Append(run_events, Event("error", 0))
            /\ run_pc' = "notify"
    /\ UNCHANGED <<angles, agent_pc, findings, artifacts, agent_result, agent_events,
                   all_artifacts, synthesis, group_objects, run_conns,
                   image_task>>

created_events(type, n) == [i \in 1..n |-> Event(type, i)]

NotifyCompleteFirst ==
    /\ run_pc = "notify"
    /\ run_events' = run_events
                     \o <<Event("research_complete", Len(all_artifacts))>>
                     \o created_events("group_created", group_objects)
                     \o created_events("connection_created", Len(run_conns))
                     \o <<ArtifactEvent("artifact_created", SummaryArtifact)>>
    /\ run_pc' = "directions"
    /\ UNCHANGED <<angles, agent_pc, findings, artifacts, agent_result, agent_events,
                   all_artifacts, synthesis, group_objects, run_conns, store,
                   image_task>>

\* lines 180-206: group_created per group, connection_created per connection,
\* artifact_created for the summary, then research_complete with the total
Notify ==
    /\ run_pc = "notify"
    /\ run_events' = run_events
                     \o created_events("group_created", group_objects)
                     \o created_events("connection_created", Len(run_conns))
                     \o <<ArtifactEvent("artifact_created", SummaryArtifact),
                          Event("research_complete", Len(all_artifacts))>>
    /\ run_pc' = "directions"
    /\ UNCHANGED <<angles, agent_pc, findings, artifacts, agent_result, agent_events,
                   all_artifacts, synthesis, group_objects, run_conns, store,
                   image_task>>

\* lines 208-248: plan directions (their failure is only logged), then
\* images_generating and the image task is created and not awaited
PlanDirections(ok) ==
    /\ run_pc = "directions"
    /\ run_events' = run_events
                     \o (IF ok THEN <<Event("plan_directions_ready", 0)>> ELSE <<>>)
                     \o <<Event("images_generating", Len(all_artifacts))>>
    /\ run_pc' = "done"
    /\ image_task' = "running"
    /\ UNCHANGED <<angles, agent_pc, findings, artifacts, agent_result, agent_events,
                   all_artifacts, synthesis, group_objects, run_conns, store>>

\* the parameters of image_service.generate_images_parallel, and the keyword
\* arguments run_plan's call and run_research's call pass
GenerateImagesParams == {"artifacts", "context", "on_progress"}

PlanCallKeywords == {"on_progress", "design_context"}

ResearchCallKeywords == {"on_progress"}

\* a call binds its arguments when every keyword names a parameter; otherwise
\* the call itself raises TypeError
call_binds(params, keywords) == keywords \subseteq params

\* the image_generated events the task has sent so far
ImagesGenerated == Len(SelectSeq(run_events, LAMBDA e : e.type = "image_generated"))

\* _generate_images, on_image_progress: an image was generated and saved, and
\* image_generated is sent for its artifact
ImageProgress ==
    /\ image_task = "running"
    /\ ImagesGenerated < Len(all_artifacts)
    /\ run_events' = Append(run_events, Event("image_generated", ImagesGenerated + 1))
    /\ UNCHANGED <<run_pc, angles, agent_pc, findings, artifacts, agent_result,
                   agent_events, all_artifacts, synthesis, group_objects, run_conns,
                   store, image_task>>

\* _generate_images: generate_images_parallel returns or raises (the exception
\* is logged); finally images_complete is sent.  A call that never returns
\* leaves the task running.
ImagesEnd(ok) ==
    /\ image_task = "running"
    /\ run_events' = Append(run_events, Event("images_complete", 0))
    /\ image_task' = IF ok /\ call_binds(GenerateImagesParams, ResearchCallKeywords)
                      THEN "done" ELSE "failed"
    /\ UNCHANGED <<run_pc, angles, agent_pc, findings, artifacts, agent_result,
                   agent_events, all_artifacts, synthesis, group_objects, run_conns,
                   store>>

NextRun ==
    \/ \E parsed \in BOOLEAN, n \in 0..MaxUnits :
          PlanReturns(plan_research(parsed, n)) /\ UNCHANGED <<dagVars, busVars, planVars, lockVars, imgVars, batchVars>>
    \/ PlanRaises /\ UNCHANGED <<dagVars, busVars, planVars, lockVars, imgVars, batchVars>>
    \/ \E a \in Agents : AgentStarted(a) /\ UNCHANGED <<dagVars, busVars, planVars, lockVars, imgVars, batchVars>>
    \/ \E a \in Agents : AgentThinking(a) /\ UNCHANGED <<dagVars, busVars, planVars, lockVars, imgVars, batchVars>>
    \/ \E a \in Agents, count \in 0..MaxFindings, bad \in 0..MaxFindings :
          bad <= count /\ SearchReturns(a, count, bad) /\ UNCHANGED <<dagVars, busVars, planVars, lockVars, imgVars, batchVars>>
    \/ \E a \in Agents : SearchRaises(a) /\ UNCHANGED <<dagVars, busVars, planVars, lockVars, imgVars, batchVars>>
    \/ \E a \in Agents : CreateNext(a) /\ UNCHANGED <<dagVars, busVars, planVars, lockVars, imgVars, batchVars>>
    \/ \E a \in Agents : AgentReturns(a) /\ UNCHANGED <<dagVars, busVars, planVars, lockVars, imgVars, batchVars>>
    \/ \E a \in Agents : AgentReturnsEmpty(a) /\ UNCHANGED <<dagVars, busVars, planVars, lockVars, imgVars, batchVars>>
    \/ FanIn /\ UNCHANGED <<dagVars, busVars, planVars, lockVars, imgVars, batchVars>>
    \/ \E g \in GroupCounts, raw \in ProposedConnections(all_artifacts),
          order \in IterationOrders(all_artifacts) :
          SynthesisReturns(g, raw, order) /\ UNCHANGED <<dagVars, busVars, planVars, lockVars, imgVars, batchVars>>
    \/ SynthesisRaises /\ UNCHANGED <<dagVars, busVars, planVars, lockVars, imgVars, batchVars>>
    \/ \E ok \in BOOLEAN : SaveStep(ok) /\ UNCHANGED <<dagVars, busVars, planVars, lockVars, imgVars, batchVars>>
    \/ Notify /\ UNCHANGED <<dagVars, busVars, planVars, lockVars, imgVars, batchVars>>
    \/ \E ok \in BOOLEAN : PlanDirections(ok) /\ UNCHANGED <<dagVars, busVars, planVars, lockVars, imgVars, batchVars>>
    \/ ImageProgress /\ UNCHANGED <<dagVars, busVars, planVars, lockVars, imgVars, batchVars>>
    \/ \E ok \in BOOLEAN : ImagesEnd(ok) /\ UNCHANGED <<dagVars, busVars, planVars, lockVars, imgVars, batchVars>>


-----------------------------------------------------------------------------
(* plan_service.py: run_plan; routers/plan.py: _safe_run_plan              *)

MaxComponents == 2

\* the id generate_artifact_id gives the k-th component, and its ui_screen
PlanArtifact(k) == <<k, 0>>

ScreenArtifact(k) == <<k, 1>>

\* a temp_id no component has
UnknownTemp == 0

\* what generate_plan may return as connections between temp_ids: nothing, a
\* cycle, a self-loop, an edge naming a temp_id that does not exist
ProposedPlanConnections(n) ==
    IF n = 0 THEN {<<>>, <<Edge(UnknownTemp, UnknownTemp)>>}
    ELSE {<<>>,
          <<Edge(1, n), Edge(n, 1)>>,
          <<Edge(1, 1)>>,
          <<Edge(1, n), Edge(n, UnknownTemp)>>}

remap_keeps_unknown(raw, n) ==
    [i \in 1..Len(raw) |->
        Edge(PlanArtifact(raw[i].from_id), PlanArtifact(raw[i].to_id))]

\* lines 142-153: temp_ids are mapped to real ids; a connection with an
\* endpoint that no component has is left out
remap(raw, n) ==
    LET known(c) == c.from_id \in 1..n /\ c.to_id \in 1..n
        kept == SelectSeq(raw, known)
    IN  [i \in 1..Len(kept) |->
            Edge(PlanArtifact(kept[i].from_id), PlanArtifact(kept[i].to_id))]

\* lines 106-137: one ui_screen artifact per component with has_ui, in the
\* order of the components, and the connection from the component to it
RECURSIVE ui_screen_queue(_, _, _)
ui_screen_queue(k, n, ui) ==
    IF k > n THEN <<>>
    ELSE (IF k \in ui THEN <<k>> ELSE <<>>) \o ui_screen_queue(k + 1, n, ui)

NoPlanStore == [artifacts |-> <<>>, connections |-> <<>>, calls |-> 0, saved |-> {}]

InitPlan ==
    /\ plan_pc = "generating"
    /\ plan_artifacts = <<>>
    /\ plan_connections = <<>>
    /\ plan_events = <<>>
    /\ plan_store = NoPlanStore
    /\ raw_connections = <<>>

PlanUnused ==
    /\ plan_pc = "unused"
    /\ plan_artifacts = <<>>
    /\ plan_connections = <<>>
    /\ plan_events = <<>>
    /\ plan_store = NoPlanStore
    /\ raw_connections = <<>>

\* lines 44-171: generate_plan returns n components, those in ui with has_ui;
\* an artifact is created and plan_artifact_created is sent per component and
\* per ui_screen, the connections are remapped, the cycles removed; save_artifacts
\* is awaited next.  bad > 0: Artifact(...) raises on the bad-th component and
\* the wrapper sends "error".
GeneratePlanReturns(n, ui, raw, reversed, bad) ==
    /\ plan_pc = "generating"
    /\ IF bad > 0
       THEN /\ plan_artifacts' = [k \in 1..(bad - 1) |-> PlanArtifact(k)]
            /\ plan_events' = [k \in 1..(bad - 1) |->
                                  ArtifactEvent("plan_artifact_created", PlanArtifact(k))]
                              \o <<Event("error", 0)>>
            /\ plan_pc' = "failed"
            /\ UNCHANGED plan_connections
       ELSE LET queue == ui_screen_queue(1, n, ui)
                arts == [k \in 1..n |-> PlanArtifact(k)]
                        \o [i \in 1..Len(queue) |-> ScreenArtifact(queue[i])]
                remapped == remap(raw, n)
                            \o [i \in 1..Len(queue) |->
                                   Edge(PlanArtifact(queue[i]), ScreenArtifact(queue[i]))]
                order == IF reversed THEN Reverse(arts) ELSE arts
            IN  /\ plan_artifacts' = arts
                /\ plan_events' = [i \in 1..Len(arts) |->
                                      ArtifactEvent("plan_artifact_created", arts[i])]
                /\ plan_connections' = remove_cycles(remapped, order)
                /\ plan_pc' = "save_artifacts"
    /\ raw_connections' = raw
    /\ UNCHANGED plan_store

\* get_artifacts or generate_plan raises: _safe_run_plan sends "error"
GeneratePlanRaises ==
    /\ plan_pc = "generating"
    /\ plan_events' = <<Event("error", 0)>>
    /\ plan_pc' = "failed"
    /\ UNCHANGED <<plan_artifacts, plan_connections, plan_store, raw_connections>>

\* lines 173-182: save_artifacts, then save_connections if there are any; when
\* one raises the except block sends "error" and the other is skipped
PlanSaveStep(ok) ==
    /\ plan_pc \in {"save_artifacts", "save_connections"}
    /\ IF ok
       THEN /\ plan_store' = [plan_store EXCEPT
                                 !.calls = @ + 1,
                                 !.saved = @ \cup {plan_pc},
                                 !.artifacts = IF plan_pc = "save_artifacts"
                                               THEN plan_artifacts ELSE @,
                                 !.connections = IF plan_pc = "save_connections"
                                                 THEN plan_connections ELSE @]
            /\ plan_pc' = IF plan_pc = "save_artifacts" /\ plan_connections # <<>>
                          THEN "save_connections" ELSE "broadcast"
            /\ UNCHANGED plan_events
       ELSE /\ plan_store' = [plan_store EXCEPT !.calls = @ + 1]
            /\ plan_events' = Append(plan_events, Event("error", 0))
            /\ plan_pc' = "broadcast"
    /\ UNCHANGED <<plan_artifacts, plan_connections, raw_connections>>

\* lines 184-193: connection_created per connection, then images_generating
PlanBroadcast ==
    /\ plan_pc = "broadcast"
    /\ plan_events' = plan_events
                      \o created_events("connection_created", Len(plan_connections))
                      \o <<Event("images_generating", Len(plan_artifacts))>>
    /\ plan_pc' = "enrich"
    /\ UNCHANGED <<plan_artifacts, plan_connections, plan_store, raw_connections>>

\* lines 204-214: await generate_images_parallel(...), then plan_complete.  A
\* call that does not bind raises TypeError, images raising raises too, and
\* _safe_run_plan sends "error"; a call that never returns leaves run_plan
\* waiting; only a call that returns lets plan_complete be sent.
PlanEnrich(outcome) ==
    /\ plan_pc = "enrich"
    /\ LET result == IF call_binds(GenerateImagesParams, PlanCallKeywords)
                     THEN outcome ELSE "raises"
       IN  /\ plan_events' =
                  CASE result = "returns" ->
                            Append(plan_events, Event("plan_complete", Len(plan_artifacts)))
                    [] result = "raises" -> Append(plan_events, Event("error", 0))
                    [] OTHER -> plan_events
           /\ plan_pc' = CASE result = "returns" -> "done"
                           [] result = "raises" -> "failed"
                           [] OTHER -> "enriching"
    /\ UNCHANGED <<plan_artifacts, plan_connections, plan_store, raw_connections>>

EnrichOutcomes == {"returns", "raises", "pending"}

NextPlan ==
    \/ \E n \in 0..MaxComponents, ui \in SUBSET (1..MaxComponents),
          reversed \in BOOLEAN, bad \in 0..MaxComponents :
          /\ plan_pc = "generating"
          /\ ui \subseteq 1..n
          /\ bad <= n
          /\ \E raw \in ProposedPlanConnections(n) :
                GeneratePlanReturns(n, ui, raw, reversed, bad)
          /\ UNCHANGED <<dagVars, busVars, runVars, lockVars, imgVars, batchVars>>
    \/ GeneratePlanRaises /\ UNCHANGED <<dagVars, busVars, runVars, lockVars, imgVars, batchVars>>
    \/ \E ok \in BOOLEAN : PlanSaveStep(ok) /\ UNCHANGED <<dagVars, busVars, runVars, lockVars, imgVars, batchVars>>
    \/ PlanBroadcast /\ UNCHANGED <<dagVars, busVars, runVars, lockVars, imgVars, batchVars>>
    \/ \E outcome \in EnrichOutcomes :
          PlanEnrich(outcome) /\ UNCHANGED <<dagVars, busVars, runVars, lockVars, imgVars, batchVars>>


-----------------------------------------------------------------------------
(* ws/manager.py: the lock.  One project; the calls of WSManager are taken  *)
(* statement by statement, and taking the lock is a step of its own, so     *)
(* that the states in which a task holds the lock are states of the model.  *)

\* the tasks running handle_project_ws (each for its own websocket), and the
\* tasks calling send_event
LkHandlers == {1, 2}

LkSenders == {3}

LkTasks == LkHandlers \cup LkSenders

Free == 0

\* a task between two calls, with the locals of no call
LkIdle == [pc |-> "idle", list |-> <<>>, disconnected |-> <<>>]

\* one access to self._connections or self._event_buffer
Access(structure, op, line, locked) ==
    [structure |-> structure, op |-> op, line |-> line, locked |-> locked]

\* where a task awaits the websocket: accept(), send_text(), receive_text()
IoPcs == {"accept", "replay_send", "receive", "send"}

\* where a task waits for `async with self._lock`, and the body it then runs
LockedBody ==
    [connect_lock |-> "connect_body", disconnect_lock |-> "disconnect_body",
     broadcast_lock |-> "broadcast_body", cleanup_lock |-> "cleanup_body"]

InitLock ==
    /\ lock = Free
    /\ lk_task = [t \in LkTasks |-> LkIdle]
    /\ lk_connections = <<>>
    /\ lk_buffer = <<>>
    /\ lk_access = {}

\* handle_project_ws calls connect(): await websocket.accept()
LkAccept(h) ==
    /\ lk_task[h].pc = "idle"
    /\ lk_task' = [lk_task EXCEPT ![h].pc = "accept"]
    /\ UNCHANGED <<lock, lk_connections, lk_buffer, lk_access>>

\* connect, line 24: the loop takes the buffer's list.  accept() raising ends
\* the handler, connect() being outside its try.
LkReplayBegin(h, ok) ==
    /\ lk_task[h].pc = "accept"
    /\ IF ok
       THEN /\ lk_task' = [lk_task EXCEPT
                              ![h].list = lk_buffer,
                              ![h].pc = IF lk_buffer = <<>> THEN "connect_lock"
                                        ELSE "replay_send"]
            /\ lk_access' = lk_access \cup
                   {Access("event_buffer", "replay read", 24, lock = h)}
       ELSE /\ lk_task' = [lk_task EXCEPT ![h].pc = "done"]
            /\ UNCHANGED lk_access
    /\ UNCHANGED <<lock, lk_connections, lk_buffer>>

\* connect, lines 26-30: await websocket.send_text(...); when it raises
\* connect returns and the handler goes on to receive_text()
LkReplaySend(h, ok) ==
    /\ lk_task[h].pc = "replay_send"
    /\ lk_task' = [lk_task EXCEPT
                      ![h].list = Tail(@),
                      ![h].pc = IF ~ok THEN "receive"
                                ELSE IF Tail(lk_task[h].list) = <<>> THEN "connect_lock"
                                ELSE "replay_send"]
    /\ UNCHANGED <<lock, lk_connections, lk_buffer, lk_access>>

\* async with self._lock: the task goes on when the lock is free
LkAcquire(t) ==
    /\ lk_task[t].pc \in DOMAIN LockedBody
    /\ lock = Free
    /\ lock' = t
    /\ lk_task' = [lk_task EXCEPT ![t].pc = LockedBody[lk_task[t].pc]]
    /\ UNCHANGED <<lk_connections, lk_buffer, lk_access>>

\* the end of an `async with self._lock` block run by task t
release(t) == IF lock = t THEN Free ELSE lock

\* connect, lines 31-32
LkConnectAppend(h) ==
    /\ lk_task[h].pc = "connect_body"
    /\ lk_connections' = Append(lk_connections, h)
    /\ lk_access' = lk_access \cup {Access("connections", "append", 32, lock = h)}
    /\ lock' = release(h)
    /\ lk_task' = [lk_task EXCEPT ![h].pc = "receive"]
    /\ UNCHANGED lk_buffer

\* handle_project_ws: receive_text() raises, finally: disconnect()
LkReceiveEnds(h) ==
    /\ lk_task[h].pc = "receive"
    /\ lk_task' = [lk_task EXCEPT ![h].pc = "disconnect_lock"]
    /\ UNCHANGED <<lock, lk_connections, lk_buffer, lk_access>>

\* disconnect, lines 36-40
LkDisconnect(h) ==
    /\ lk_task[h].pc = "disconnect_body"
    /\ lk_connections' = RemoveFirst(lk_connections, h)
    /\ lk_access' = lk_access \cup {Access("connections", "remove", 37, lock = h)}
    /\ lock' = release(h)
    /\ lk_task' = [lk_task EXCEPT ![h].pc = "done"]
    /\ UNCHANGED lk_buffer

\* send_event, lines 67-73: the append, the pruning, then broadcast() which
\* first waits for the lock
LkSendEvent(s) ==
    /\ lk_task[s].pc = "idle"
    /\ Len(lk_buffer) < MaxEvents
    /\ lk_buffer' = Append(lk_buffer, Len(lk_buffer) + 1)
    /\ lk_access' = lk_access \cup
           {Access("event_buffer", "append", 69, lock = s),
            Access("event_buffer", "prune", 71, lock = s)}
    /\ lk_task' = [lk_task EXCEPT ![s].pc = "broadcast_lock"]
    /\ UNCHANGED <<lock, lk_connections>>

LkBroadcastCopyHolding(s) ==
    /\ lk_task[s].pc = "broadcast_body"
    /\ lk_access' = lk_access \cup {Access("connections", "copy", 47, lock = s)}
    /\ lk_task' = [lk_task EXCEPT
                      ![s].list = lk_connections,
                      ![s].disconnected = <<>>,
                      ![s].pc = IF lk_connections = <<>> THEN "idle" ELSE "send"]
    /\ UNCHANGED <<lock, lk_connections, lk_buffer>>

\* broadcast, lines 46-47: the copy of the list, at the end of which the lock
\* is given back; with nobody listed broadcast returns
LkBroadcastCopy(s) ==
    /\ lk_task[s].pc = "broadcast_body"
    /\ lk_access' = lk_access \cup {Access("connections", "copy", 47, lock = s)}
    /\ lock' = release(s)
    /\ lk_task' = [lk_task EXCEPT
                      ![s].list = lk_connections,
                      ![s].disconnected = <<>>,
                      ![s].pc = IF lk_connections = <<>> THEN "idle" ELSE "send"]
    /\ UNCHANGED <<lk_connections, lk_buffer>>

\* broadcast, lines 50-56: await ws.send_text(message) for the next websocket
\* of the copy; after the last one broadcast returns, or waits for the lock to
\* clean up
LkBroadcastSend(s, ok) ==
    /\ lk_task[s].pc = "send"
    /\ LET rest == Tail(lk_task[s].list)
           failed == IF ok THEN lk_task[s].disconnected
                     ELSE Append(lk_task[s].disconnected, Head(lk_task[s].list))
       IN  lk_task' = [lk_task EXCEPT
                          ![s].list = rest,
                          ![s].disconnected = failed,
                          ![s].pc = IF rest # <<>> THEN "send"
                                    ELSE IF failed = <<>> THEN "idle"
                                    ELSE "cleanup_lock"]
    /\ UNCHANGED <<lock, lk_connections, lk_buffer, lk_access>>

\* broadcast, lines 58-61
LkCleanup(s) ==
    /\ lk_task[s].pc = "cleanup_body"
    /\ lk_connections' = RemoveAll(lk_connections, lk_task[s].disconnected)
    /\ lk_access' = lk_access \cup {Access("connections", "remove", 60, lock = s)}
    /\ lock' = release(s)
    /\ lk_task' = [lk_task EXCEPT ![s] = LkIdle]
    /\ UNCHANGED lk_buffer

NextLock ==
    \/ \E h \in LkHandlers : LkAccept(h) /\ UNCHANGED <<dagVars, busVars, runVars, planVars, imgVars, batchVars>>
    \/ \E h \in LkHandlers, ok \in BOOLEAN : LkReplayBegin(h, ok) /\ UNCHANGED <<dagVars, busVars, runVars, planVars, imgVars, batchVars>>
    \/ \E h \in LkHandlers, ok \in BOOLEAN : LkReplaySend(h, ok) /\ UNCHANGED <<dagVars, busVars, runVars, planVars, imgVars, batchVars>>
    \/ \E t \in LkTasks : LkAcquire(t) /\ UNCHANGED <<dagVars, busVars, runVars, planVars, imgVars, batchVars>>
    \/ \E h \in LkHandlers : LkConnectAppend(h) /\ UNCHANGED <<dagVars, busVars, runVars, planVars, imgVars, batchVars>>
    \/ \E h \in LkHandlers : LkReceiveEnds(h) /\ UNCHANGED <<dagVars, busVars, runVars, planVars, imgVars, batchVars>>
    \/ \E h \in LkHandlers : LkDisconnect(h) /\ UNCHANGED <<dagVars, busVars, runVars, planVars, imgVars, batchVars>>
    \/ \E s \in LkSenders : LkSendEvent(s) /\ UNCHANGED <<dagVars, busVars, runVars, planVars, imgVars, batchVars>>
    \/ \E s \in LkSenders : LkBroadcastCopy(s) /\ UNCHANGED <<dagVars, busVars, runVars, planVars, imgVars, batchVars>>
    \/ \E s \in LkSenders, ok \in BOOLEAN : LkBroadcastSend(s, ok) /\ UNCHANGED <<dagVars, busVars, runVars, planVars, imgVars, batchVars>>
    \/ \E s \in LkSenders : LkCleanup(s) /\ UNCHANGED <<dagVars, busVars, runVars, planVars, imgVars, batchVars>>

-----------------------------------------------------------------------------
(* image_service.py                                                        *)

MAX_RETRIES == 3

INITIAL_BACKOFF == 2

\* the artifacts given to generate_images_parallel
ImageUnits == {1, 2}

\* what one generate_content call may end in: a response with an image, a
\* response without, asyncio.TimeoutError from wait_for, another exception
AttemptOutcomes == {"image", "no_image", "timeout", "error"}

Attempted(outcome) == [kind |-> "attempt", outcome |-> outcome, secs |-> 0]

Slept(secs) == [kind |-> "sleep", outcome |-> "", secs |-> secs]

\* row: the store holds the artifact's row; stored: the row holds its image
NoUnit == [pc |-> "unused", attempt |-> 0, log |-> <<>>, result |-> "pending",
           row |-> FALSE, stored |-> FALSE]

InitImg ==
    /\ img_run = "save"
    /\ img_unit = [u \in ImageUnits |-> NoUnit]
    /\ img_events = <<>>
    /\ img_map = {}

ImgUnused ==
    /\ img_run = "unused"
    /\ img_unit = [u \in ImageUnits |-> NoUnit]
    /\ img_events = <<>>
    /\ img_map = {}

\* research_service.py:169-178: save_artifacts inserts the rows of all the
\* artifacts in one statement; when it raises the run goes on without them
\* (the "error" event of line 176 comes before the events kept here)
ImgSave(ok) ==
    /\ img_run = "save"
    /\ img_unit' = [u \in ImageUnits |-> [img_unit[u] EXCEPT !.row = ok]]
    /\ img_run' = "notify"
    /\ UNCHANGED <<img_events, img_map>>

\* research_service.py:203-206: research_complete with the total
ImgResearchComplete ==
    /\ img_run = "notify"
    /\ img_events' = Append(img_events,
                            Event("research_complete", Cardinality(ImageUnits)))
    /\ img_run' = "directions"
    /\ UNCHANGED <<img_unit, img_map>>

\* research_service.py:208-248: the plan directions (their failure is only
\* logged), images_generating, and the task running _generate_images is
\* created, which calls generate_images_parallel
ImgGenerating(ok) ==
    /\ img_run = "directions"
    /\ img_events' = img_events
                     \o (IF ok THEN <<Event("plan_directions_ready", 0)>> ELSE <<>>)
                     \o <<Event("images_generating", Cardinality(ImageUnits))>>
    /\ img_run' = "called"
    /\ UNCHANGED <<img_unit, img_map>>

\* image_service.py:135, get_settings() raises: generate_images_parallel ends
\* with an exception before any task exists, and _generate_images logs it
\* (research_service.py:243-244)
ImgRaises ==
    /\ img_run = "called"
    /\ img_run' = "raised"
    /\ UNCHANGED <<img_unit, img_events, img_map>>

\* generate_images_parallel, lines 136-150: without GEMINI_API_KEY it returns
\* {} at once; else one _generate_one task per artifact is given to gather
ImgGather(has_key) ==
    /\ img_run = "called"
    /\ IF has_key
       THEN /\ img_run' = "gathering"
            /\ img_unit' = [u \in ImageUnits |-> [img_unit[u] EXCEPT !.pc = "client"]]
       ELSE /\ img_run' = "returned"
            /\ UNCHANGED img_unit
    /\ UNCHANGED <<img_events, img_map>>

\* generate_artifact_image, lines 73-74, before the loop and outside its try:
\* an exception here leaves _generate_one and is kept by gather
GetClient(u, ok) ==
    /\ img_unit[u].pc = "client"
    /\ img_unit' = [img_unit EXCEPT
                       ![u].pc = IF ok THEN "try" ELSE "done",
                       ![u].result = IF ok THEN @ ELSE "raised"]
    /\ UNCHANGED <<img_run, img_events, img_map>>

backoff_constant(attempt) == INITIAL_BACKOFF

\* line 120: INITIAL_BACKOFF * (2 ** attempt)
backoff(attempt) == INITIAL_BACKOFF * 2 ^ attempt

\* line 119
should_sleep(attempt) == attempt < MAX_RETRIES - 1

\* for attempt in range(MAX_RETRIES): the next iteration, or return None
loop_next(unit) ==
    IF unit.attempt + 1 < MAX_RETRIES
    THEN [unit EXCEPT !.attempt = @ + 1, !.pc = "try"]
    ELSE [unit EXCEPT !.result = "none", !.pc = "progress"]

\* lines 77-119: one generate_content call under wait_for; an image is
\* returned at once, anything else is logged
Attempt(u, outcome) ==
    /\ img_unit[u].pc = "try"
    /\ LET unit == [img_unit[u] EXCEPT !.log = Append(@, Attempted(outcome))]
       IN  img_unit' = [img_unit EXCEPT ![u] =
               IF outcome = "image"
               THEN [unit EXCEPT !.result = "image", !.pc = "progress"]
               ELSE IF should_sleep(unit.attempt)
               THEN [unit EXCEPT !.pc = "sleep"]
               ELSE loop_next(unit)]
    /\ UNCHANGED <<img_run, img_events, img_map>>

\* line 120: await asyncio.sleep(...)
Sleep(u) ==
    /\ img_unit[u].pc = "sleep"
    /\ img_unit' = [img_unit EXCEPT ![u] =
           loop_next([img_unit[u] EXCEPT
                         !.log = Append(@, Slept(backoff(img_unit[u].attempt)))])]
    /\ UNCHANGED <<img_run, img_events, img_map>>

UnitStep(u) ==
    /\ \/ \E ok \in BOOLEAN : GetClient(u, ok)
       \/ \E outcome \in AttemptOutcomes : Attempt(u, outcome)
       \/ Sleep(u)
    /\ UNCHANGED <<dagVars, busVars, runVars, planVars, lockVars, batchVars>>

\* research_service.py:230: if saved
publishes(outcome) == outcome = "sent"

\* _generate_one, lines 145-147, with run_research's on_image_progress
\* (research_service.py:227-234): an image that update_artifact_image saved is
\* published; the callback raising leaves the task with an exception.
\* update_artifact_image (db/supabase.py:94-102) returns True when the update
\* statement did not raise; the statement changes the rows with the id, and
\* none when there is none (as update_artifact, lines 76-80, provides for).
ImgProgress(u, outcome) ==
    /\ img_unit[u].pc = "progress"
    /\ outcome = "sent" => img_unit[u].result = "image"
    /\ img_unit' = [img_unit EXCEPT
                       ![u].pc = "done",
                       ![u].result = IF outcome = "raises" THEN "raised" ELSE @,
                       ![u].stored = outcome = "sent" /\ img_unit[u].row]
    /\ img_events' = IF publishes(outcome)
                     THEN Append(img_events, Event("image_generated", u))
                     ELSE img_events
    /\ UNCHANGED <<img_run, img_map>>

ProgressOutcomes == {"sent", "silent", "raises"}

\* lines 150-161: gather(return_exceptions=True) returns when every task is
\* over; exceptions are logged, the images are mapped
ImgReturn ==
    /\ img_run = "gathering"
    /\ \A u \in ImageUnits : img_unit[u].pc = "done"
    /\ img_map' = {u \in ImageUnits : img_unit[u].result = "image"}
    /\ img_run' = "returned"
    /\ UNCHANGED <<img_unit, img_events>>

\* research_service.py:238-246, _generate_images: finally images_complete
ImgComplete ==
    /\ img_run \in {"returned", "raised"}
    /\ img_events' = Append(img_events, Event("images_complete", 0))
    /\ img_run' = "complete"
    /\ UNCHANGED <<img_unit, img_map>>

NextImg ==
    \/ \E ok \in BOOLEAN : ImgSave(ok) /\ UNCHANGED <<dagVars, busVars, runVars, planVars, lockVars, batchVars>>
    \/ ImgResearchComplete /\ UNCHANGED <<dagVars, busVars, runVars, planVars, lockVars, batchVars>>
    \/ \E ok \in BOOLEAN : ImgGenerating(ok) /\ UNCHANGED <<dagVars, busVars, runVars, planVars, lockVars, batchVars>>
    \/ ImgRaises /\ UNCHANGED <<dagVars, busVars, runVars, planVars, lockVars, batchVars>>
    \/ \E has_key \in BOOLEAN : ImgGather(has_key) /\ UNCHANGED <<dagVars, busVars, runVars, planVars, lockVars, batchVars>>
    \/ \E u \in ImageUnits : UnitStep(u)
    \/ \E u \in ImageUnits, outcome \in ProgressOutcomes : ImgProgress(u, outcome) /\ UNCHANGED <<dagVars, busVars, runVars, planVars, lockVars, batchVars>>
    \/ ImgReturn /\ UNCHANGED <<dagVars, busVars, runVars, planVars, lockVars, batchVars>>
    \/ ImgComplete /\ UNCHANGED <<dagVars, busVars, runVars, planVars, lockVars, batchVars>>


-----------------------------------------------------------------------------
(* routers/feedback.py: batch regeneration.  The artifacts with pending     *)
(* feedback are named by their place in artifact_ids.                       *)

MaxBatch == 3

BatchEvent(type, artifact_id, status) ==
    [type |-> type, artifact_id |-> artifact_id, status |-> status,
     total |-> 0, succeeded |-> 0, failed |-> 0]

\* what the calls of one _regenerate_artifact_task end in: regenerate_artifact
\* returns None or raises, update_artifact returns None or raises,
\* mark_feedback_addressed raises, generate_artifact_image raises or returns
\* None, update_artifact_image returns False or True
RegenerateOutcomes ==
    {"claude_none", "claude_raises", "update_none", "update_raises", "mark_raises",
     "image_raises", "no_image", "image_unsaved", "image_saved"}

\* _regenerate_artifact_task: the events it publishes, and whether it leaves
\* with an exception; a failed regeneration or save is reported with "error"
\* and the function returns
regenerate_artifact_task(artifact_id, outcome) ==
    LET updated == <<BatchEvent("artifact_updated", artifact_id, ""),
                     BatchEvent("feedback_addressed", artifact_id, "")>>
    IN  CASE outcome = "claude_none" ->
                 [events |-> <<BatchEvent("error", artifact_id, "Failed to regenerate")>>,
                  raised |-> FALSE]
          [] outcome = "update_none" ->
                 [events |-> <<BatchEvent("error", artifact_id, "Failed to save")>>,
                  raised |-> FALSE]
          [] outcome \in {"claude_raises", "update_raises", "mark_raises"} ->
                 [events |-> <<>>, raised |-> TRUE]
          [] outcome = "image_raises" -> [events |-> updated, raised |-> TRUE]
          [] outcome \in {"no_image", "image_unsaved"} ->
                 [events |-> updated, raised |-> FALSE]
          [] outcome = "image_saved" ->
                 [events |-> Append(updated, BatchEvent("image_generated", artifact_id, "")),
                  raised |-> FALSE]

InitBatch ==
    /\ batch_pc = "called"
    /\ batch_total \in 1..MaxBatch
    /\ batch_i = 0
    /\ batch_succeeded = 0
    /\ batch_failed = 0
    /\ batch_events = <<>>

BatchUnused ==
    /\ batch_pc = "unused"
    /\ batch_total = 0
    /\ batch_i = 0
    /\ batch_succeeded = 0
    /\ batch_failed = 0
    /\ batch_events = <<>>

\* lines 159-170: batch_regenerate_start, then get_artifacts, which may raise
\* and end the task
BatchRegenerateStart(ok) ==
    /\ batch_pc = "called"
    /\ batch_events' = <<[BatchEvent("batch_regenerate_start", 0, "")
                             EXCEPT !.total = batch_total]>>
    /\ batch_pc' = IF ok THEN "loop" ELSE "raised"
    /\ UNCHANGED <<batch_total, batch_i, batch_succeeded, batch_failed>>

\* lines 172-205, one pass of the loop: an artifact that is not in
\* artifact_map fails; else _regenerate_artifact_task is awaited and the
\* artifact succeeds when the call returns, fails when it raises
BatchRegenerateOne(present, outcome) ==
    /\ batch_pc = "loop"
    /\ batch_i < batch_total
    /\ LET artifact_id == batch_i + 1
           call == IF present THEN regenerate_artifact_task(artifact_id, outcome)
                   ELSE [events |-> <<>>, raised |-> FALSE]
           ok == present /\ ~call.raised
           progress == [BatchEvent("batch_regenerate_progress", artifact_id,
                                   IF ok THEN "complete" ELSE "failed")
                           EXCEPT !.total = batch_total]
       IN  /\ batch_succeeded' = IF ok THEN batch_succeeded + 1 ELSE batch_succeeded
           /\ batch_failed' = IF ok THEN batch_failed ELSE batch_failed + 1
           /\ batch_events' = Append(batch_events \o call.events, progress)
    /\ batch_i' = batch_i + 1
    /\ UNCHANGED <<batch_pc, batch_total>>

\* lines 209-213
BatchRegenerateComplete ==
    /\ batch_pc = "loop"
    /\ batch_i = batch_total
    /\ batch_events' = Append(batch_events,
                              [BatchEvent("batch_regenerate_complete", 0, "")
                                  EXCEPT !.total = batch_total,
                                         !.succeeded = batch_succeeded,
                                         !.failed = batch_failed])
    /\ batch_pc' = "done"
    /\ UNCHANGED <<batch_total, batch_i, batch_succeeded, batch_failed>>

NextBatch ==
    \/ \E ok \in BOOLEAN :
          BatchRegenerateStart(ok) /\ UNCHANGED <<dagVars, busVars, runVars, planVars, lockVars, imgVars>>
    \/ \E present \in BOOLEAN, outcome \in RegenerateOutcomes :
          BatchRegenerateOne(present, outcome) /\ UNCHANGED <<dagVars, busVars, runVars, planVars, lockVars, imgVars>>
    \/ BatchRegenerateComplete /\ UNCHANGED <<dagVars, busVars, runVars, planVars, lockVars, imgVars>>

-----------------------------------------------------------------------------
(* SpecDag: the inputs are drawn in Init, the actions apply the functions  *)

NoResult == <<>>

DagUnused ==
    /\ artifact_ids = <<>>
    /\ connections_data = <<>>
    /\ dag_pc = "unused"
    /\ dag_connections = NoResult
    /\ dag_again = NoResult
    /\ layers = NoResult

\* the orders in which the ids are listed or iterated.  The edge sequences
\* range over all ids, so renaming the ids turns any order into any other;
\* an order and its reverse are kept.
IdOrders == {p \in Perms(NodeIds) : p[2] = "B"}

\* four nodes with a three-node cycle and a tail; the set of ids is iterated
\* in any order
CycleWithTailIds == {"A", "B", "C", "D"}

CycleWithTail == <<Edge("A", "B"), Edge("B", "C"), Edge("C", "A"), Edge("C", "D")>>

InitDag ==
    /\ \/ /\ artifact_ids \in IdOrders
          /\ connections_data \in SeqsUpTo(AllEdges, MaxEdges)
       \/ /\ artifact_ids \in Perms(CycleWithTailIds)
          /\ connections_data = CycleWithTail
    /\ dag_pc = "input"
    /\ dag_connections = NoResult
    /\ dag_again = NoResult
    /\ layers = NoResult

RemoveCycles ==
    /\ dag_pc = "input"
    /\ dag_connections' = remove_cycles(connections_data, artifact_ids)
    /\ dag_pc' = "accepted"
    /\ UNCHANGED <<artifact_ids, connections_data, dag_again, layers>>

RemoveCyclesAgain ==
    /\ dag_pc = "accepted"
    /\ dag_again' = remove_cycles(dag_connections, artifact_ids)
    /\ dag_pc' = "reapplied"
    /\ UNCHANGED <<artifact_ids, connections_data, dag_connections, layers>>

TopologicalSort ==
    /\ dag_pc = "input"
    /\ layers' = topological_sort_layers(artifact_ids, connections_data)
    /\ dag_pc' = "layered"
    /\ UNCHANGED <<artifact_ids, connections_data, dag_connections, dag_again>>

\* the accepted connections, once stored, are layered for an export
TopologicalSortAccepted ==
    /\ dag_pc = "accepted"
    /\ layers' = topological_sort_layers(artifact_ids, dag_connections)
    /\ dag_pc' = "exported"
    /\ UNCHANGED <<artifact_ids, connections_data, dag_connections, dag_again>>

NextDag ==
    \/ RemoveCycles /\ UNCHANGED <<busVars, runVars, planVars, lockVars, imgVars, batchVars>>
    \/ TopologicalSortAccepted /\ UNCHANGED <<busVars, runVars, planVars, lockVars, imgVars, batchVars>>
    \/ RemoveCyclesAgain /\ UNCHANGED <<busVars, runVars, planVars, lockVars, imgVars, batchVars>>
    \/ TopologicalSort /\ UNCHANGED <<busVars, runVars, planVars, lockVars, imgVars, batchVars>>

DagStart == InitDag /\ InitBus /\ InitRun /\ PlanUnused /\ InitLock /\ ImgUnused /\ BatchUnused

SpecDag == DagStart /\ [][NextDag]_vars

BusStart == InitBus /\ DagUnused /\ InitRun /\ PlanUnused /\ InitLock /\ ImgUnused /\ BatchUnused

SpecBus == BusStart /\ [][NextBus]_vars

RunStart == InitRun /\ DagUnused /\ InitBus /\ PlanUnused /\ InitLock /\ ImgUnused /\ BatchUnused

SpecRun == RunStart /\ [][NextRun]_vars

PlanStart == InitPlan /\ DagUnused /\ InitBus /\ InitRun /\ InitLock /\ ImgUnused /\ BatchUnused

SpecPlan == PlanStart /\ [][NextPlan]_vars

\* either pipeline, one per run: start_research or start_plan
RunUnused ==
    /\ run_pc = "unused"
    /\ angles = 0
    /\ agent_pc = [a \in Agents |-> "unused"]
    /\ findings = [a \in Agents |-> NoFindings]
    /\ artifacts = [a \in Agents |-> <<>>]
    /\ agent_result = [a \in Agents |-> NotReturned]
    /\ agent_events = [a \in Agents |-> <<>>]
    /\ run_events = <<>>
    /\ all_artifacts = <<>>
    /\ synthesis = NoSynthesis
    /\ group_objects = 0
    /\ run_conns = <<>>
    /\ store = EmptyStore
    /\ image_task = "none"

PipelineStart ==
    /\ \/ InitRun /\ PlanUnused
       \/ RunUnused /\ InitPlan
    /\ DagUnused /\ InitBus /\ InitLock /\ ImgUnused /\ BatchUnused

NextPipeline == NextRun \/ NextPlan

SpecPipeline == PipelineStart /\ [][NextPipeline]_vars

\* every awaited call returns or raises, and the event loop runs a task that
\* can go on: a step that moves a run or a runner forward is taken in the end
SpecPipelineFair ==
    PipelineStart /\ [][NextPipeline]_vars
        /\ WF_<<run_pc, plan_pc, agent_pc, artifacts>>(NextPipeline)

LockStart == InitLock /\ DagUnused /\ InitBus /\ InitRun /\ PlanUnused /\ ImgUnused /\ BatchUnused

SpecLock == LockStart /\ [][NextLock]_vars

ImgStart == InitImg /\ DagUnused /\ InitBus /\ InitRun /\ PlanUnused /\ InitLock /\ BatchUnused

\* an attempt ends (wait_for gives it TIMEOUT_SECONDS at most) and a sleep ends
SpecImage ==
    ImgStart /\ [][NextImg]_vars /\ \A u \in ImageUnits : WF_vars(UnitStep(u))

\* besides, the calls of the store and of the event bus return or raise, and
\* the event loop runs every task that can run
SpecImageFair == ImgStart /\ [][NextImg]_vars /\ WF_vars(NextImg)

BatchStart ==
    InitBatch /\ DagUnused /\ InitBus /\ InitRun /\ PlanUnused /\ InitLock /\ ImgUnused

SpecBatch == BatchStart /\ [][NextBatch]_vars

-----------------------------------------------------------------------------
(* Properties of dag_utils, checked under SpecDag                          *)

\* the edges of a sequence whose endpoints are both in ids, as a set of pairs
KnownEdges(edges, ids) ==
    {<<edges[i].from_id, edges[i].to_id>> : i \in
        {j \in 1..Len(edges) : edges[j].from_id \in ids /\ edges[j].to_id \in ids}}

Successors(S, E) == {e[2] : e \in {x \in E : x[1] \in S}}

\* the nodes reachable from S by one or more edges of E
RECURSIVE ReachableIn(_, _, _)
ReachableIn(S, E, k) ==
    IF k = 0 THEN {}
    ELSE LET next == Successors(S, E) IN next \cup ReachableIn(next, E, k - 1)

Reachable(n, E, ids) == ReachableIn({n}, E, Cardinality(ids))

Acyclic(E, ids) == \A n \in ids : n \notin Reachable(n, E, ids)

\* C1: the edges remove_cycles returns, restricted to edges between known ids,
\* contain no directed cycle, whatever the candidate edges and the visiting order.
C1_OutputAcyclic ==
    dag_pc \in {"accepted", "reapplied"} =>
        Acyclic(KnownEdges(dag_connections, NodeIds), NodeIds)

\* a three-node cycle went in and exactly its closing edge was taken out
C1_Witness ==
    /\ dag_pc = "accepted"
    /\ artifact_ids = <<"A", "B", "C">>
    /\ connections_data = <<Edge("A", "B"), Edge("B", "C"), Edge("C", "A")>>
    /\ dag_connections = <<Edge("A", "B"), Edge("B", "C")>>

\* C9: topological_sort_layers returns a complete partition of its node ids:
\* every listed id is in exactly one layer, no other id is in any layer, also
\* when the edges have cycles (those nodes form the final layer).
C9_LayersPartition ==
    dag_pc = "layered" =>
        /\ Len(Flatten(layers)) = Len(artifact_ids)
        /\ Range(Flatten(layers)) = Range(artifact_ids)
        /\ \A i \in 1..Len(layers) : layers[i] # <<>>

\* a cycle B <-> C below the root A: the cycle's nodes are the final layer
C9_Witness ==
    /\ dag_pc = "layered"
    /\ ~Acyclic(KnownEdges(connections_data, NodeIds), NodeIds)
    /\ Len(layers) = 2
    /\ Len(layers[2]) = 2

\* C10: on candidate edges that are already acyclic over the node ids,
\* remove_cycles returns the input sequence itself (same edges, same order), and
\* remove_cycles applied to its own output returns that output.
C10_IdempotentOnDag ==
    /\ (dag_pc \in {"accepted", "reapplied"}
        /\ Acyclic(KnownEdges(connections_data, NodeIds), NodeIds))
            => dag_connections = connections_data
    /\ dag_pc = "reapplied" => dag_again = dag_connections

\* an acyclic input with a forward edge (A->C beside A->B->C) came back unchanged
C10_Witness ==
    /\ dag_pc = "reapplied"
    /\ connections_data = <<Edge("A", "B"), Edge("B", "C"), Edge("A", "C")>>
    /\ dag_connections = connections_data
    /\ dag_again = connections_data

\* C11: no edge returned by remove_cycles names an id outside the node-id set:
\* every returned edge has its from_id and its to_id among artifact_ids.
C11_UnknownIdsFiltered ==
    dag_pc \in {"accepted", "reapplied"} =>
        \A i \in 1..Len(dag_connections) :
            /\ dag_connections[i].from_id \in Range(artifact_ids)
            /\ dag_connections[i].to_id \in Range(artifact_ids)

-----------------------------------------------------------------------------
(* Properties of the event bus, checked under SpecBus                      *)

IsLive(w) == w \in Range(GetOrEmpty(connections, ws_topic[w]))

Quiet == \A t \in Publishers : bc[t].pc = "idle"

\* the events published to w's project since w's replay began
PublishedSinceReplay(w) ==
    {published[ws_topic[w]][k].payload :
        k \in (sub_log[w].start + 1)..Len(published[ws_topic[w]])}

\* C2: a subscriber whose replay has begun and whose sink stays healthy misses no
\* event of its topic: once it is live and no broadcast is still in flight,
\* every event published since its replay began has been sent to it.
C2_NoMissedEvent ==
    \A w \in Sinks :
        (ws_pc[w] = "receive" /\ alive[w] /\ IsLive(w) /\ Quiet)
            => PublishedSinceReplay(w) \subseteq Range(received[w])

\* C3: a subscriber that connects after N events were published to its topic
\* within the TTL is sent exactly those N first, in publish order: what it has
\* received so far and the N events agree position by position, and once it is
\* in the live list it has received all N.
C3_ReplayBeforeNew ==
    \A w \in Sinks :
        LET due == sub_log[w].due
            got == received[w]
        IN  /\ \A i \in 1..Len(due) : i <= Len(got) => got[i] = due[i]
            /\ (ws_pc[w] = "receive" /\ IsLive(w)) => Len(got) >= Len(due)

\* two events were buffered when the subscriber connected; it got both, then a new one
C3_Witness ==
    \E w \in Sinks :
        /\ ws_pc[w] = "receive"
        /\ IsLive(w)
        /\ Len(sub_log[w].due) = 2
        /\ Len(received[w]) = 3
        /\ received[w][3] \notin Range(sub_log[w].due)

-----------------------------------------------------------------------------
(* Properties of the research run, checked under SpecRun                   *)

Types(evs) == [i \in 1..Len(evs) |-> evs[i].type]

HasEvent(evs, type) == \E i \in 1..Len(evs) : evs[i].type = type

LastType(evs) == IF evs = <<>> THEN "none" ELSE evs[Len(evs)].type

\* the unit ended with its completed event / with its failed event
Succeeded(a) == agent_pc[a] = "returned" /\ LastType(agent_events[a]) = "agent_complete"

Failed(a) == agent_pc[a] = "returned" /\ LastType(agent_events[a]) = "error"

\* what a successful unit returns: one artifact per finding it was given
SuccessArtifacts(a) ==
    IF Succeeded(a) THEN [j \in 1..findings[a].count |-> Artifact(a, j)] ELSE <<>>

RECURSIVE SuccessUnion(_, _)
SuccessUnion(a, n) ==
    IF a > n THEN <<>> ELSE SuccessArtifacts(a) \o SuccessUnion(a + 1, n)

Joined == run_pc \notin {"planning", "gather"}

\* C4 as claimed: as soon as some unit has succeeded and the runners have
\* joined, synthesis is called with the union of the successful units' results.
C4_AnySuccessSynthesizes ==
    (Joined /\ \E a \in 1..angles : Succeeded(a))
        => (synthesis.called /\ synthesis.input = SuccessUnion(1, angles))

\* C4 amended: after the join, synthesis is called exactly when the successful
\* units returned at least one artifact in total; its argument is then the union
\* of the result sets of the successful units, the runners have all returned
\* by then, and what save_artifacts persists is that union behind the summary.
C4_SuccessesSynthesized ==
    /\ Joined /\ angles > 0 => (synthesis.called <=> SuccessUnion(1, angles) # <<>>)
    /\ synthesis.called =>
          /\ synthesis.input = SuccessUnion(1, angles)
          /\ \A a \in 1..angles : agent_pc[a] = "returned"
    /\ store.artifacts # <<>> => store.artifacts = <<SummaryArtifact>> \o synthesis.input

\* two units, one failed, one returned two artifacts: both were synthesized and saved
C4_Witness ==
    /\ angles = 2
    /\ Failed(1)
    /\ Succeeded(2)
    /\ synthesis.called
    /\ synthesis.input = <<Artifact(2, 1), Artifact(2, 2)>>
    /\ store.artifacts = <<SummaryArtifact, Artifact(2, 1), Artifact(2, 2)>>

\* C5: when every unit of a run fails, the run short-circuits with
\* research_complete and total 0, without synthesis or persistence, and no
\* event of type "error" is published in that run.
C5_TotalFailureNoError ==
    (run_pc = "done" /\ angles > 0 /\ \A a \in 1..angles : Failed(a))
        => /\ run_events[Len(run_events)] = Event("research_complete", 0)
           /\ ~synthesis.called
           /\ store.calls = 0
           /\ ~HasEvent(run_events, "error")
           /\ \A a \in 1..angles : ~HasEvent(agent_events[a], "error")

AgentStep(a) ==
    \/ AgentStarted(a)
    \/ AgentThinking(a)
    \/ \E count \in 0..MaxFindings : SearchReturns(a, count, 0)
    \/ SearchRaises(a)
    \/ CreateNext(a)
    \/ AgentReturns(a)
    \/ AgentReturnsEmpty(a)

\* C6: fan-in waits for all units: synthesis is not called and no group_created,
\* connection_created or research_complete event is published while a spawned
\* runner has not returned; and a runner that has not returned can always take
\* its next step, whatever happened to its siblings.
C6_FanInWaitsForAll ==
    /\ (\/ synthesis.called
        \/ HasEvent(run_events, "group_created")
        \/ HasEvent(run_events, "connection_created")
        \/ HasEvent(run_events, "research_complete"))
            => \A a \in 1..angles : agent_pc[a] = "returned"
    /\ \A a \in 1..angles : agent_pc[a] # "returned" => ENABLED AgentStep(a)

\* the first unit failed, the second returned two artifacts, and the run
\* published a connection between them and completed only after both returned
C6_Witness ==
    /\ angles = 2
    /\ Failed(1)
    /\ Succeeded(2)
    /\ Len(agent_result[2].value) = 2
    /\ HasEvent(run_events, "connection_created")
    /\ LastType(run_events) = "research_complete"

Terminal == {"agent_complete", "error"}

Progress == {"agent_thinking", "artifact_created"}

\* C7: a runner's own event stream is agent_started, then progress and node
\* events, then exactly one terminal event (agent_complete with the number of
\* artifacts returned, or error); it returns only after the terminal event.
C7_RunnerEventShape ==
    \A a \in Agents :
        LET evs == agent_events[a] IN
        /\ evs # <<>> => evs[1].type = "agent_started"
        /\ \A i \in 2..Len(evs) :
              /\ evs[i].type \in Progress \cup Terminal
              /\ evs[i].type \in Terminal => i = Len(evs)
        /\ agent_result[a].kind # "none" =>
              /\ LastType(evs) \in Terminal
              /\ LastType(evs) = "agent_complete" =>
                    /\ agent_result[a].kind = "returned"
                    /\ evs[Len(evs)].n = Len(agent_result[a].value)
        /\ LastType(evs) \in Terminal => agent_pc[a] \in {"completing", "erroring", "returned"}

\* a runner that streamed two artifacts and completed with count 2
C7_Witness ==
    \E a \in Agents :
        /\ agent_pc[a] = "returned"
        /\ Types(agent_events[a]) = <<"agent_started", "agent_thinking",
                                      "artifact_created", "artifact_created",
                                      "agent_complete">>
        /\ agent_events[a][5].n = 2

\* C8: when a runner's delegated work raises, the runner publishes its failed
\* event and returns an empty result; no runner hands an exception to gather.
C8_FailureIsCaught ==
    \A a \in Agents :
        /\ agent_result[a].kind # "raised"
        /\ (agent_pc[a] = "returned" /\ HasEvent(agent_events[a], "error"))
              => agent_result[a] = Returned(<<>>)

\* the search call of a runner raised: started, thinking, error, and [] returned
C8_Witness ==
    \E a \in Agents :
        /\ agent_pc[a] = "returned"
        /\ Types(agent_events[a]) = <<"agent_started", "agent_thinking", "error">>
        /\ agent_result[a] = Returned(<<>>)

\* the places of the events of a type in a stream
Places(evs, type) == {i \in 1..Len(evs) : evs[i].type = type}

\* C12: a research run always spawns at least one runner: once the directions
\* are planned there is at least one angle, also when the plan came back empty.
C12_AtLeastOneRunner ==
    HasEvent(run_events, "research_directions_planned")
        => (angles >= 1 /\ agent_pc[1] # "unused")

\* C13: a failure of the synthesis call does not abort the run: a run that
\* called synthesis and ended has published research_complete and has not
\* ended in the wrapper's error handler.
C13_SynthesisFailureNonFatal ==
    (synthesis.called /\ run_pc \in {"done", "failed"})
        => (run_pc = "done" /\ HasEvent(run_events, "research_complete"))

AllSaves == {"save_artifacts", "save_connections", "save_groups"}

\* C15: research_complete with a non-zero count is published only after the
\* run's artifacts, connections and groups were all saved successfully.
C15_CompleteConfirmsDurability ==
    \A i \in Places(run_events, "research_complete") :
        run_events[i].n > 0 => store.saved = AllSaves

\* C17: events are ordered across the phases of a research run:
\* research_directions_planned is published before any runner publishes, each
\* runner's agent_started is the first of its events, and research_complete is
\* published only when every runner has returned and after every group_created
\* and connection_created event, the summary's artifact_created and the save
\* attempt of that run.
C17_PhaseOrder ==
    /\ \A a \in Agents :
          agent_events[a] # <<>> =>
              /\ run_events # <<>>
              /\ run_events[1].type = "research_directions_planned"
              /\ Places(agent_events[a], "agent_started") = {1}
    /\ \A i \in Places(run_events, "research_complete") :
          /\ \A a \in 1..angles : agent_pc[a] = "returned"
          /\ \A j \in Places(run_events, "group_created")
                      \cup Places(run_events, "connection_created")
                      \cup Places(run_events, "artifact_created") : j < i
          /\ run_events[i].n > 0 =>
                /\ Cardinality(Places(run_events, "group_created")) = group_objects
                /\ Cardinality(Places(run_events, "connection_created")) = Len(run_conns)
                /\ Cardinality(Places(run_events, "artifact_created")) = 1
                /\ store.calls >= 1

\* two runners published, then a group, a connection and the summary were
\* announced and research_complete closed the phase
C17_Witness ==
    /\ angles = 2
    /\ \A a \in 1..2 : Len(agent_events[a]) >= 3
    /\ Types(run_events) = <<"research_directions_planned", "group_created",
                             "connection_created", "artifact_created",
                             "research_complete">>
    /\ store.saved = AllSaves

-----------------------------------------------------------------------------
(* Properties of the plan run, checked under SpecPlan                      *)

\* run_plan is over, or waits for the enrichment for ever
PlanEnded == plan_pc \in {"done", "failed", "enriching"}

\* a save call of run_plan raised
PlanSaveFailed == plan_store.calls > Cardinality(plan_store.saved)

\* C14: when a save call fails during a run, exactly one "error" event is
\* published, the save is not called again, the events published before stay,
\* and the run goes on to publish its connection_created events and its
\* phase-complete event.
C14_SaveFailureOnlyReported ==
    (PlanSaveFailed /\ PlanEnded) =>
        /\ Cardinality(Places(plan_events, "error")) = 1
        /\ plan_store.calls <= 2
        /\ Cardinality(Places(plan_events, "plan_artifact_created")) = Len(plan_artifacts)
        /\ Cardinality(Places(plan_events, "connection_created")) = Len(plan_connections)
        /\ HasEvent(plan_events, "plan_complete")

\* C16: the phase-complete event does not depend on enrichment: a plan run that
\* reached image generation publishes plan_complete whether the enrichment
\* returns, raises or never finishes.
C16_CompleteWithoutEnrichment ==
    (PlanEnded /\ HasEvent(plan_events, "images_generating"))
        => HasEvent(plan_events, "plan_complete")

-----------------------------------------------------------------------------
(* Further properties of the event bus, checked under SpecBus              *)

LiveSet(conns, p) == Range(GetOrEmpty(conns, p))

\* C18: a failed delivery is isolated: when a broadcast ends, every websocket
\* of its copied list whose send_text failed is out of the topic's live list,
\* every other websocket of the copied list has been sent the message, and the
\* call ends idle (it returns to the publisher).
C18_DeliveryFailureIsolated ==
    [][\A t \in Publishers :
          (bc[t].pc # "idle" /\ bc'[t].pc = "idle") =>
              /\ bc'[t] = IdleCall
              /\ \A w \in Range(bc[t].disconnected) :
                    w \notin LiveSet(connections', bc[t].project_id)
              /\ \A w \in Range(bc[t].connections) :
                    \/ w \in Range(bc[t].disconnected)
                    \/ bc[t].message \in Range(received'[w])]_vars

\* the first websocket of two live ones died; the broadcast of the topic's first
\* event took it off the live list and the second websocket received the event
C18_Witness ==
    /\ Quiet
    /\ ws_topic[1] = 1 /\ ws_topic[2] = 1
    /\ ws_pc[1] = "receive" /\ ~alive[1] /\ ~IsLive(1)
    /\ sub_log[1].start = 0 /\ received[1] = <<>>
    /\ sub_log[2].start = 0
    /\ IsLive(2) /\ alive[2]
    /\ received[2] = << <<1, 1>> >>

\* C19: every subscriber receives the events of its topic in publish order:
\* what a websocket has received is ordered by the events' place in the topic's
\* history, under every interleaving of send_event, connect and disconnect.
C19_PublishOrder ==
    \A w \in Sinks :
        \A i, j \in 1..Len(received[w]) :
            i < j => received[w][i][2] <= received[w][j][2]

\* C20: a websocket whose replay send fails is discarded: it leaves connect()
\* without joining the live list, and a dead websocket that is not on the live
\* list never joins it and is sent nothing more.
C20_FailedReplayDiscarded ==
    [][\A w \in Sinks :
          /\ (ws_pc[w] = "replay" /\ ~alive[w] /\ ws_pc'[w] # "replay")
                => w \notin LiveSet(connections', ws_topic[w])
          /\ (~alive[w] /\ ~IsLive(w))
                => /\ w \notin LiveSet(connections', ws_topic[w])
                   /\ received'[w] = received[w]]_vars

\* a replay of two fresh events broke off after the first; a later event of the
\* topic was published and the websocket, not on the live list, did not get it
C20_Witness ==
    \E w \in Sinks :
        /\ ws_pc[w] = "receive"
        /\ ~alive[w]
        /\ ~IsLive(w)
        /\ Len(sub_log[w].due) = 2
        /\ Len(received[w]) = 1
        /\ Len(published[ws_topic[w]]) = 3
        /\ Quiet

\* C21: a subscriber that connects when every earlier event of its topic is
\* older than the TTL is replayed nothing, also when the expired events are
\* still in the buffer: all it has received was published after its replay began.
C21_ExpiredNotReplayed ==
    \A w \in Sinks :
        (ws_pc[w] \in {"replay", "receive"} /\ sub_log[w].due = <<>>)
            => \A i \in 1..Len(received[w]) : received[w][i][2] > sub_log[w].start

\* an event was published, the TTL went by with the event still in the buffer,
\* then the websocket connected: it is live and was replayed nothing
C21_Witness ==
    \E w \in Sinks :
        /\ ws_pc[w] = "receive"
        /\ IsLive(w)
        /\ sub_log[w].start = 1
        /\ sub_log[w].due = <<>>
        /\ Len(GetOrEmpty(event_buffer, ws_topic[w])) = 1
        /\ clock - event_buffer[ws_topic[w]][1].ts >= BufferTtl
        /\ received[w] = <<>>

\* the buffered events of a topic that are fresh at a time, in buffer order
FreshBuffered(buffer, p, now) ==
    LET isDue(e) == now - e.ts < BufferTtl
    IN  Payloads(SelectSeq(GetOrEmpty(buffer, p), isDue))

\* C22: publishing to a topic with no live subscriber does not raise and stores
\* the event: the call ends at once, the event is the newest entry of the
\* topic's buffer, and whenever a buffer or the time changes (both start
\* empty) the fresh entries of each buffer are the topic's events published
\* less than the TTL ago, which a subscriber connecting then is replayed.
C22_PublishWithoutSubscribers ==
    [][/\ (event_buffer' # event_buffer \/ clock' # clock) =>
             \A p \in Topics :
                 FreshBuffered(event_buffer', p, clock') = FreshHistory(published'[p], clock')
       /\ \A p \in Topics :
             (Len(published'[p]) = Len(published[p]) + 1 /\ LiveSet(connections, p) = {})
                => /\ \A t \in Publishers : bc'[t].pc = bc[t].pc
                   /\ p \in DOMAIN event_buffer'
                   /\ event_buffer'[p] # <<>>
                   /\ event_buffer'[p][Len(event_buffer'[p])] =
                          published'[p][Len(published'[p])]]_vars

\* the first websocket ever connected after an event was published to nobody,
\* and was replayed that event
C22_Witness ==
    /\ ws_pc[2] = "idle"
    /\ ws_pc[1] = "receive"
    /\ IsLive(1)
    /\ sub_log[1].start = 1
    /\ received[1] = << <<ws_topic[1], 1>> >>

\* the step in which the handler of w calls disconnect()
Disconnects(w) == ws_pc[w] = "receive" /\ ws_pc'[w] = "closed"

\* C23 as claimed: disconnect() takes the websocket off its topic's live list,
\* drops the topic's entry when the list becomes empty, changes nothing at all
\* for a websocket that is not listed, and leaves every replay buffer as it is.
C23_DisconnectNoOpIfAbsent ==
    [][\A w \in Sinks :
          Disconnects(w) =>
              /\ w \notin LiveSet(connections', ws_topic[w])
              /\ (w \in LiveSet(connections, ws_topic[w])
                  /\ LiveSet(connections', ws_topic[w]) = {})
                    => ws_topic[w] \notin DOMAIN connections'
              /\ w \notin LiveSet(connections, ws_topic[w]) => connections' = connections
              /\ event_buffer' = event_buffer]_vars

\* C23 amended: disconnect() takes the websocket off its topic's live list,
\* drops the topic's entry when that removal empties the list, leaves the live
\* set of every topic unchanged for a websocket that is not listed, and leaves
\* every replay buffer as it is.
C23_DisconnectKeepsBuffer ==
    [][\A w \in Sinks :
          Disconnects(w) =>
              /\ \A p \in Topics :
                    LiveSet(connections', p) =
                        LiveSet(connections, p) \ (IF p = ws_topic[w] THEN {w} ELSE {})
              /\ (w \in LiveSet(connections, ws_topic[w])
                  /\ LiveSet(connections', ws_topic[w]) = {})
                    => ws_topic[w] \notin DOMAIN connections'
              /\ event_buffer' = event_buffer]_vars

\* the only subscriber received an event and disconnected, which emptied the
\* live list; the next subscriber was still replayed that event
C23_Witness ==
    /\ ws_pc[1] = "closed"
    /\ received[1] = << <<1, 1>> >>
    /\ Len(published[1]) = 1
    /\ ws_pc[2] = "receive"
    /\ ws_topic[2] = 1
    /\ sub_log[2].start = 1
    /\ IsLive(2)
    /\ received[2] = << <<1, 1>> >>

-----------------------------------------------------------------------------
(* Further properties of the plan run, checked under SpecPlan               *)

\* the components of the run, by temp_id
PlanComponents == {k \in 1..MaxComponents : PlanArtifact(k) \in Range(plan_artifacts)}

\* C26: no plan edge dangles.  Every connection that run_plan keeps, saves or
\* publishes joins two artifacts of the run; a proposed connection naming a
\* temp_id without component is not among them; and a proposed connection
\* between two components is resolved whatever their order: it is kept unless
\* it is a self-loop or closes a cycle with a kept connection.
C26_NoDanglingPlanEdge ==
    /\ \A c \in Range(plan_connections) \cup Range(plan_store.connections) :
          c.from_id \in Range(plan_artifacts) /\ c.to_id \in Range(plan_artifacts)
    /\ Cardinality(Places(plan_events, "connection_created")) <= Len(plan_connections)
    /\ plan_store.connections \in {<<>>, plan_connections}
    /\ plan_pc \notin {"generating", "unused", "failed"} =>
          \A i \in 1..Len(raw_connections) :
              LET c == raw_connections[i] IN
              (c.from_id \in PlanComponents /\ c.to_id \in PlanComponents) =>
                  \/ Edge(PlanArtifact(c.from_id), PlanArtifact(c.to_id))
                         \in Range(plan_connections)
                  \/ c.from_id = c.to_id
                  \/ Edge(PlanArtifact(c.to_id), PlanArtifact(c.from_id))
                         \in Range(plan_connections)

\* generate_plan proposed 1 -> 2 and 2 -> a temp_id no component has: only the
\* first connection was saved and published
C26_Witness ==
    /\ raw_connections = <<Edge(1, 2), Edge(2, UnknownTemp)>>
    /\ plan_store.connections = <<Edge(PlanArtifact(1), PlanArtifact(2))>>
    /\ Cardinality(Places(plan_events, "connection_created")) = 1

-----------------------------------------------------------------------------
(* Further properties of dag_utils, checked under SpecDag                   *)

\* the candidate edges that remove_cycles did not return
Removed == {e \in Range(connections_data) : e \notin Range(dag_connections)}

\* C28: remove_cycles returns a maximal acyclic subset.  What it returns is the
\* candidate sequence without the removed edges; every removed edge joins two
\* known ids; and for every removed edge (u,v) either u = v or the returned
\* edges lead from v to u, so that putting the edge back would close a cycle.
C28_RemovedEdgesCloseCycles ==
    dag_pc \in {"accepted", "reapplied", "exported"} =>
        /\ LET kept(e) == e \notin Removed
           IN  dag_connections = SelectSeq(connections_data, kept)
        /\ \A e \in Removed :
              /\ e.from_id \in Range(artifact_ids)
              /\ e.to_id \in Range(artifact_ids)
              /\ \/ e.from_id = e.to_id
                 \/ e.from_id \in Reachable(e.to_id,
                                    KnownEdges(dag_connections, Range(artifact_ids)),
                                    Range(artifact_ids))

\* of a two-node cycle and an edge to an unknown id, only the edge closing the
\* cycle was removed
C28_Witness ==
    /\ dag_pc = "accepted"
    /\ artifact_ids = <<"A", "B", "C">>
    /\ connections_data = <<Edge("A", "B"), Edge("B", "A"), Edge("B", UnknownId)>>
    /\ dag_connections = <<Edge("A", "B"), Edge("B", UnknownId)>>

\* C29: the removed edges are a function of the caller's input alone: for the
\* nodes A, B, C, D and the candidate edges [(A,B),(B,C),(C,A),(C,D)] exactly
\* (C,A) is removed, the accepted edges are [(A,B),(B,C),(C,D)] and their
\* layers are [[A],[B],[C],[D]].
C29_FixedVisitOrder ==
    (connections_data = CycleWithTail /\ Range(artifact_ids) = CycleWithTailIds) =>
        /\ dag_pc \in {"accepted", "reapplied", "exported"} =>
              dag_connections = <<Edge("A", "B"), Edge("B", "C"), Edge("C", "D")>>
        /\ dag_pc = "exported" =>
              layers = << <<"A">>, <<"B">>, <<"C">>, <<"D">> >>

\* the edges that were layered, and the layer of a listed node
Layered == IF dag_pc = "layered" THEN connections_data ELSE dag_connections

LayerOf(aid) == CHOOSE i \in 1..Len(layers) : aid \in Range(layers[i])

\* C30: the layers of an acyclic edge set respect every edge: for each edge
\* (u,v) between listed nodes the layer of u comes strictly before the layer of
\* v, so no edge joins two nodes of one layer.
C30_LayersRespectEdges ==
    (dag_pc \in {"layered", "exported"}
     /\ Acyclic(KnownEdges(Layered, Range(artifact_ids)), Range(artifact_ids))) =>
        \A e \in KnownEdges(Layered, Range(artifact_ids)) : LayerOf(e[1]) < LayerOf(e[2])

\* C is a successor of the root A and of B: it waits for B and is in layer three
C30_Witness ==
    /\ dag_pc = "layered"
    /\ connections_data = <<Edge("A", "C"), Edge("A", "B"), Edge("B", "C")>>
    /\ layers = << <<"A">>, <<"B">>, <<"C">> >>

-----------------------------------------------------------------------------
(* Properties of the lock of WSManager, checked under SpecLock              *)

\* C24: every read or write of the subscriber list and of the replay buffer
\* (append, prune, replay read) is made by a task that holds the lock.
C24_AllAccessUnderLock == \A a \in lk_access : a.locked

\* C25: the lock is never held while subscriber I/O is in progress: a task
\* that awaits accept(), send_text() or receive_text() does not hold the lock,
\* and whoever holds the lock is inside one of the four locked blocks, none of
\* which awaits, so a task waiting for the lock never waits for a websocket.
C25_NoIoUnderLock ==
    /\ \A t \in LkTasks : lk_task[t].pc \in IoPcs => lock # t
    /\ lock # Free => lk_task[lock].pc \in {LockedBody[k] : k \in DOMAIN LockedBody}

\* a broadcast is delivering to a websocket while a connecting handler holds
\* the lock, and the other handler's access to the list was locked too
C25_Witness ==
    /\ \E s \in LkSenders : lk_task[s].pc = "send" /\ lk_task[s].list # <<>>
    /\ \E h \in LkHandlers : lock = h /\ lk_task[h].pc = "connect_body"

-----------------------------------------------------------------------------
(* Properties of the enrichment, checked under SpecImage                    *)

Attempts(u) == SelectSeq(img_unit[u].log, LAMBDA e : e.kind = "attempt")

Sleeps(u) == SelectSeq(img_unit[u].log, LAMBDA e : e.kind = "sleep")

\* generate_artifact_image has returned or raised for unit u
AttemptsOver(u) == img_unit[u].pc \in {"progress", "done"}

\* every attempt of unit u failed
AllFailed(u) ==
    /\ Len(Attempts(u)) = MAX_RETRIES
    /\ \A i \in 1..MAX_RETRIES : Attempts(u)[i].outcome # "image"

C27_UnitShape(u) ==
    LET log == img_unit[u].log IN
    /\ Len(Attempts(u)) <= MAX_RETRIES
    /\ \A i \in 1..Len(log) : log[i].outcome = "image" => i = Len(log)
    /\ [i \in 1..Len(Sleeps(u)) |-> Sleeps(u)[i].secs] \in {<<>>, <<2>>, <<2, 4>>}
    /\ \A i \in 1..Len(log) :
          log[i].kind = "sleep" => i > 1 /\ log[i - 1].kind = "attempt"
    /\ AttemptsOver(u) => (log = <<>> \/ log[Len(log)].kind = "attempt")
    /\ (AttemptsOver(u) /\ log # <<>> /\ log[Len(log)].outcome # "image")
          => AllFailed(u)

\* C27: each enrichment unit makes at most MAX_RETRIES = 3 attempts, stops at
\* its first image, sleeps 2 s and then 4 s between attempts and not after the
\* last, and comes to an end; attempts that all fail put no "error" among the
\* events, and the images returned and published are those of the units whose
\* own last attempt gave an image, whatever the other units did.
C27_BoundedRetries ==
    /\ [](\A u \in ImageUnits : C27_UnitShape(u))
    /\ [](\A i \in 1..Len(img_events) : img_events[i].type # "error")
    /\ [](img_run = "complete" /\ (\E u \in ImageUnits : img_unit[u].log # <<>>) =>
             /\ img_map = {u \in ImageUnits :
                              /\ img_unit[u].log # <<>>
                              /\ img_unit[u].log[Len(img_unit[u].log)].outcome = "image"
                              /\ img_unit[u].result # "raised"}
             /\ \A u \in ImageUnits :
                   Event("image_generated", u) \in Range(img_events) => u \in img_map)
    /\ \A u \in ImageUnits : (img_unit[u].pc = "client") ~> AttemptsOver(u)

\* unit 1 timed out, failed and got no image, with the two sleeps between;
\* unit 2 got its image at once, and it was published and returned
C27_Witness ==
    /\ img_run = "complete"
    /\ img_unit[1].log = <<Attempted("timeout"), Slept(2), Attempted("error"),
                           Slept(4), Attempted("no_image")>>
    /\ img_unit[2].log = <<Attempted("image")>>
    /\ img_map = {2}
    /\ img_events = <<Event("research_complete", 2), Event("images_generating", 2),
                      Event("image_generated", 2), Event("images_complete", 0)>>

-----------------------------------------------------------------------------
(* Layers of nodes without edges, checked under SpecDag                     *)

\* C31: when no edge joins two listed nodes, topological_sort_layers returns
\* each node as a layer of its own, in the order of the node list.
C31_SingletonLayers ==
    (dag_pc = "layered" /\ KnownEdges(connections_data, Range(artifact_ids)) = {}) =>
        layers = [i \in 1..Len(artifact_ids) |-> <<artifact_ids[i]>>]

-----------------------------------------------------------------------------
(* Properties of both pipelines, checked under SpecPipeline                 *)

PairsOf(conns) == {<<c.from_id, c.to_id>> : c \in Range(conns)}

\* the connections join nodes of ids and have no directed cycle
IsDagOver(conns, ids) ==
    \/ conns = <<>>
    \/ /\ \A c \in Range(conns) : c.from_id \in ids /\ c.to_id \in ids
       /\ Acyclic(PairsOf(conns), ids)

\* the connection_created events announce connections of conns, each once
Announces(events, conns) ==
    /\ Cardinality(Places(events, "connection_created")) <= Len(conns)
    /\ \A i \in Places(events, "connection_created") : events[i].n \in 1..Len(conns)

\* C32: in a research run and in a plan run, the connections that are kept,
\* saved and announced by connection_created form an acyclic graph over the
\* run's artifacts, whatever the synthesis or the plan proposed (cycles,
\* self-loops, ids that do not exist), the connections from a component to its
\* ui_screen included.
C32_PersistedEdgesAcyclic ==
    /\ IsDagOver(run_conns, Range(all_artifacts))
    /\ IsDagOver(store.connections, Range(all_artifacts))
    /\ store.connections \in {<<>>, run_conns}
    /\ Announces(run_events, run_conns)
    /\ IsDagOver(plan_connections, Range(plan_artifacts))
    /\ IsDagOver(plan_store.connections, Range(plan_artifacts))
    /\ plan_store.connections \in {<<>>, plan_connections}
    /\ Cardinality(Places(plan_events, "connection_created")) <= Len(plan_connections)

\* the plan proposed a cycle between its two components, the first of which
\* has a ui_screen: the closing edge is gone, the other and the ui_screen
\* connection were saved and announced
C32_Witness ==
    /\ raw_connections = <<Edge(1, 2), Edge(2, 1)>>
    /\ plan_artifacts = <<PlanArtifact(1), PlanArtifact(2), ScreenArtifact(1)>>
    /\ Len(plan_store.connections) = 2
    /\ Edge(PlanArtifact(1), ScreenArtifact(1)) \in Range(plan_store.connections)
    /\ Cardinality(Places(plan_events, "connection_created")) = 2

-----------------------------------------------------------------------------
(* Further properties of the replay buffer, checked under SpecBus           *)

\* C33: after every send_event on a topic the topic's buffer holds exactly the
\* events published to it less than the TTL (60 s) ago, in publish order, the
\* new event last; and a buffer only changes in a send_event on its topic, by
\* losing entries that reached the TTL and gaining the new event at its end.
C33_BufferAfterPublish ==
    [][/\ \A p \in Topics :
             published'[p] # published[p] =>
                 LET isDue(e) == clock' - e.ts < BufferTtl
                     old == GetOrEmpty(event_buffer, p)
                     new == event_buffer'[p]
                 IN  /\ new = SelectSeq(published'[p], isDue)
                     /\ new[Len(new)] = published'[p][Len(published'[p])]
                     /\ SubSeq(new, 1, Len(new) - 1) = SelectSeq(old, isDue)
       /\ event_buffer' # event_buffer => published' # published
       /\ \A p \in DOMAIN event_buffer :
             published'[p] = published[p] => event_buffer'[p] = event_buffer[p]]_vars

\* the second event of a topic was published when the first had reached the
\* TTL: the buffer holds the second one only
C33_Witness ==
    \E p \in Topics :
        /\ Len(published[p]) = 2
        /\ p \in DOMAIN event_buffer
        /\ event_buffer[p] = <<published[p][2]>>
        /\ published[p][2].ts - published[p][1].ts >= BufferTtl

\* C34: once handle_project_ws has returned for a websocket (the client went
\* away, during the replay or after), the websocket is in no project's live
\* list, and a broadcast that starts later does not have it in its copy.
C34_ClosedIsGone ==
    [][/\ \A w \in Sinks :
             ws_pc'[w] = "closed" =>
                 \A p \in DOMAIN connections' : w \notin Range(connections'[p])
       /\ \A t \in Publishers :
             (bc[t].pc = "idle" /\ bc'[t].pc = "sending") =>
                 \A w \in Range(bc'[t].connections) : ws_pc[w] # "closed"]_vars

\* websocket 1 was live and got the first event, its handler returned, and a
\* second event was then broadcast to websocket 2 only
C34_Witness ==
    /\ ws_pc[1] = "closed"
    /\ received[1] = << <<1, 1>> >>
    /\ received[2] = << <<1, 1>>, <<1, 2>> >>
    /\ Quiet

\* C35: topics are isolated: an event published to a project is buffered under
\* that project only, a project's live list holds only websockets connected
\* for it, a broadcast's copy likewise, and everything a websocket was sent,
\* by replay or by broadcast, was published to its own project.
C35_TopicIsolation ==
    /\ \A p \in DOMAIN event_buffer :
          \A i \in 1..Len(event_buffer[p]) : event_buffer[p][i].payload[1] = p
    /\ \A p \in DOMAIN connections :
          \A w \in Range(connections[p]) : ws_topic[w] = p
    /\ \A t \in Publishers :
          bc[t].pc # "idle" =>
              /\ bc[t].message[1] = bc[t].project_id
              /\ \A w \in Range(bc[t].connections) : ws_topic[w] = bc[t].project_id
    /\ \A w \in Sinks :
          /\ \A i \in 1..Len(received[w]) : received[w][i][1] = ws_topic[w]
          /\ \A i \in 1..Len(replay[w].list) : replay[w].list[i].payload[1] = ws_topic[w]

\* two live websockets of two projects, an event published to each project:
\* each websocket was sent the event of its own project only
C35_Witness ==
    /\ ws_topic = <<1, 2>>
    /\ IsLive(1) /\ IsLive(2)
    /\ Len(published[1]) = 1 /\ Len(published[2]) = 1
    /\ received[1] = << <<1, 1>> >>
    /\ received[2] = << <<2, 1>> >>

\* C36: no event is delivered twice to a websocket: what a websocket was sent,
\* by replay and by broadcast together, has no repetition, and while its
\* replay is in progress it is in no live list, so that no broadcast reaches it.
C36_NoDuplicateDelivery ==
    \A w \in Sinks :
        /\ \A i, j \in 1..Len(received[w]) : received[w][i] = received[w][j] => i = j
        /\ ws_pc[w] = "replay" => ~IsLive(w)

\* the second event was published during the replay of a websocket: it is in
\* the list being replayed, its broadcast is over and did not reach the
\* websocket, which so far was sent the first event only
C36_Witness ==
    \E w \in Sinks :
        /\ ws_pc[w] = "replay"
        /\ sub_log[w].start = 1
        /\ Len(published[ws_topic[w]]) = 2
        /\ Len(replay[w].list) = 2
        /\ replay[w].idx = 2
        /\ received[w] = << <<ws_topic[w], 1>> >>
        /\ Quiet

-----------------------------------------------------------------------------
(* Announced artifacts, checked under SpecRun                               *)

\* C37: every artifact a runner announced with artifact_created is in the
\* list the runner returns, also when the runner ends in failure, so that no
\* announced artifact is missing from the nodes the run saves.
C37_AnnouncedIsReturned ==
    \A a \in Agents :
        agent_pc[a] = "returned" =>
            \A i \in Places(agent_events[a], "artifact_created") :
                /\ agent_events[a][i].artifact \in Range(agent_result[a].value)
                /\ "save_artifacts" \in store.saved
                      => agent_events[a][i].artifact \in Range(store.artifacts)

-----------------------------------------------------------------------------
(* Termination of the pipelines, checked under SpecPipelineFair             *)

\* C38: every run started through start_research or start_plan eventually
\* publishes a terminal signal, its phase-complete event or a run-level
\* "error", when every awaited call returns or raises: no exception ends the
\* background task without an event.
C38_TerminalSignal ==
    /\ (run_pc = "planning") ~>
           (HasEvent(run_events, "research_complete") \/ HasEvent(run_events, "error"))
    /\ (plan_pc = "generating") ~>
           (HasEvent(plan_events, "plan_complete") \/ HasEvent(plan_events, "error"))

\* the synthesis call of a research run raised after the runners had returned
\* artifacts: the wrapper published "error" as the run's last event
C38_Witness ==
    /\ run_pc = "failed"
    /\ synthesis.called
    /\ all_artifacts # <<>>
    /\ LastType(run_events) = "error"
    /\ ~HasEvent(run_events, "research_complete")

-----------------------------------------------------------------------------
(* Order of the enrichment events, checked under SpecImageFair              *)

EnrichmentOrdered ==
    LET complete == Places(img_events, "research_complete")
        generating == Places(img_events, "images_generating")
        generated == Places(img_events, "image_generated")
        over == Places(img_events, "images_complete")
    IN  /\ \A i \in generating : \E j \in complete : j < i
        /\ Cardinality(over) <= 1
        /\ (img_run = "complete") = (Cardinality(over) = 1)
        /\ \A i \in over : \A j \in generated : j < i
        /\ \A j \in generated :
              /\ img_unit[img_events[j].n].result = "image"
              /\ img_unit[img_events[j].n].stored

\* C39: in a research run that reaches enrichment, images_generating comes
\* after research_complete; images_complete is published once generation is
\* over, exactly once and after every image_generated, whether every image
\* was generated, some were not, or generate_images_parallel raised; and
\* image_generated is published for a node only when update_artifact_image
\* has stored the node's image.
C39_EnrichmentOrder ==
    /\ []EnrichmentOrdered
    /\ (img_run = "called") ~> HasEvent(img_events, "images_complete")

-----------------------------------------------------------------------------
(* Counts of a batch regeneration, checked under SpecBatch                  *)

====
